---------------------------- MODULE Spec2Model ----------------------------
(***************************************************************************)
(* NPF-CRM: the REST API's request pipeline (authenticate, requireAdmin,  *)
(* the resource handlers) over the relational store.  A request is served *)
(* by one slot; every store call (a prisma query) is one atomic step, and *)
(* the JavaScript between two awaits only touches the request's own       *)
(* locals, so steps of different requests interleave at the store calls.  *)
(*                                                                         *)
(* Encodings.  A null or absent value is 0 for an id and "" for a string  *)
(* (both are falsy in the code).  A caseId "CA-<suffix>" is kept as its   *)
(* suffix, a sequence of decimal digits, so that "CA-0002" and "CA-2" are *)
(* different identifiers with the same parsed number.  A username is a    *)
(* sequence of characters, so that trim() is a computation.               *)
(***************************************************************************)
EXTENDS Integers, Sequences, FiniteSets, TLC

\* ---------------------------------------------------------------- bounds
Slots == 2
MaxRequests == 3

\* ------------------------------------------------------------- variables
VARIABLES
  users,        \* table user: id -> [username, password, role, status]
  nextUserId,   \* AUTO_INCREMENT of user.id
  cases,        \* table cases: set of rows
  nextCaseRow,  \* AUTO_INCREMENT of cases.id
  reports,      \* table reports: set of rows
  nextReportRow,
  incidents,    \* table incidents: set of rows
  nextIncidentRow,
  officers,     \* table officers: set of rows
  activitylog,  \* table activitylog: sequence of [action, userId, metadata]
  issued,       \* tokens handed out by login
  reqs,         \* slot -> the request it serves
  started       \* requests received so far

vars == <<users, nextUserId, cases, nextCaseRow, reports, nextReportRow,
          incidents, nextIncidentRow, officers, activitylog, issued, reqs,
          started>>

store == <<users, nextUserId, cases, nextCaseRow, reports, nextReportRow,
           incidents, nextIncidentRow, officers, activitylog>>

SlotIds == 1..Slots

Max(S) == CHOOSE x \in S : \A y \in S : y <= x
Min(S) == CHOOSE x \in S : \A y \in S : x <= y

\* --------------------------------------------------------------- strings
\* parseInt of a string of decimal digits.
RECURSIVE parseInt(_)
parseInt(ds) ==
  IF ds = <<>> THEN 0
  ELSE 10 * parseInt(SubSeq(ds, 1, Len(ds) - 1)) + ds[Len(ds)]

\* The decimal digits of a number, as a template literal `${n}` prints it.
RECURSIVE NumberToString(_)
NumberToString(n) ==
  IF n < 10 THEN <<n>> ELSE NumberToString(n \div 10) \o <<n % 10>>

\* String.prototype.trim: leading and trailing blanks removed.
RECURSIVE trim(_)
trim(str) ==
  IF str = <<>> THEN str
  ELSE IF Head(str) = " " THEN trim(Tail(str))
  ELSE IF str[Len(str)] = " " THEN trim(SubSeq(str, 1, Len(str) - 1))
  ELSE str

\* bcrypt.hash and bcrypt.compare: a hash matches exactly its plaintext.
bcryptHash(plain) == [hashOf |-> plain]
bcryptCompare(plain, hash) == hash.hashOf = plain

\* --------------------------------------------------------------- tokens
JWT_SECRET == "server"
NoToken == [userId |-> 0, sig |-> "", expired |-> FALSE]

\* jwt.sign({userId}, JWT_SECRET, {expiresIn})
generateToken(userId) ==
  [userId |-> userId, sig |-> JWT_SECRET, expired |-> FALSE]

\* jwt.verify: the error's name, or "" and the decoded payload.
jwtVerify(token) ==
  IF token.sig # JWT_SECRET
    THEN [error |-> "JsonWebTokenError", userId |-> 0]
  ELSE IF token.expired
    THEN [error |-> "TokenExpiredError", userId |-> 0]
  ELSE [error |-> "", userId |-> token.userId]

NoHeader == [scheme |-> "", token |-> NoToken]
Bearer(t) == [scheme |-> "Bearer", token |-> t]
Basic(t) == [scheme |-> "Basic", token |-> t]

\* ------------------------------------------------------------ responses
NoResp == [status |-> 0, code |-> ""]
Resp(st, c) == [status |-> st, code |-> c]

NoUser == [id |-> 0, username |-> <<>>, role |-> "", status |-> ""]


\* --------------------------------------------------------------- routes
\* src/routes/*.js: every route below is registered behind authenticate;
\* AdminRoutes are those that also name requireAdmin.
CaseRoutes ==
  {"GET /api/cases", "GET /api/cases/statistics", "GET /api/cases/:id",
   "POST /api/cases", "PATCH /api/cases/:id", "DELETE /api/cases/:id"}
UserRoutes ==
  {"GET /api/users", "GET /api/users/:id", "POST /api/users",
   "PATCH /api/users/:id", "DELETE /api/users/:id"}
ReportRoutes ==
  {"GET /api/reports", "GET /api/reports/:id", "GET /api/reports/:id/pdf",
   "POST /api/reports", "DELETE /api/reports/:id"}
IncidentRoutes ==
  {"GET /api/incidents", "GET /api/incidents/statistics",
   "GET /api/incidents/:id", "POST /api/incidents",
   "PATCH /api/incidents/:id", "DELETE /api/incidents/:id"}
OfficerRoutes ==
  {"GET /api/officers", "GET /api/officers/statistics",
   "GET /api/officers/:badge", "POST /api/officers",
   "PATCH /api/officers/:badge", "DELETE /api/officers/:badge"}
DashboardRoutes ==
  {"GET /api/dashboard/statistics", "GET /api/dashboard/recent-activity",
   "GET /api/dashboard/case-distribution", "GET /api/dashboard/recent-cases",
   "GET /api/dashboard/personnel-status"}

ProtectedRoutes ==
  CaseRoutes \cup UserRoutes \cup ReportRoutes \cup IncidentRoutes
    \cup OfficerRoutes \cup DashboardRoutes

\* Routers that put requireAdmin on the delete routes only.
AdminRoutes_deletesOnly ==
  {"DELETE /api/cases/:id", "DELETE /api/users/:id", "DELETE /api/reports/:id",
   "DELETE /api/incidents/:id", "DELETE /api/officers/:badge"}

AdminRoutes ==
  {"DELETE /api/cases/:id",
   "GET /api/users", "POST /api/users", "DELETE /api/users/:id",
   "DELETE /api/reports/:id", "DELETE /api/incidents/:id",
   "POST /api/officers", "PATCH /api/officers/:badge",
   "DELETE /api/officers/:badge"}

DeleteRoutes ==
  {"DELETE /api/cases/:id", "DELETE /api/users/:id", "DELETE /api/reports/:id",
   "DELETE /api/incidents/:id", "DELETE /api/officers/:badge"}

PublicRoutes == {"POST /api/auth/login", "POST /api/auth/register"}

\* The routes of the auth router whose handlers read req.user.
SessionRoutes == {"POST /api/auth/change-password"}

\* The handler a route ends in, named by the pc of the handler's first step.
\* Handlers that only read the store share one step, "read".
Handler(route) ==
  CASE route = "POST /api/cases" -> "createCase"
    [] route = "PATCH /api/cases/:id" -> "updateCase"
    [] route = "DELETE /api/cases/:id" -> "deleteCase"
    [] route = "GET /api/cases/statistics" -> "getCaseStatistics"
    [] route = "GET /api/dashboard/statistics" -> "getDashboardStatistics"
    [] route = "POST /api/users" -> "createUser"
    [] route = "PATCH /api/users/:id" -> "updateUser"
    [] route = "DELETE /api/users/:id" -> "deleteUser"
    [] route = "POST /api/reports" -> "createReport"
    [] route = "DELETE /api/reports/:id" -> "deleteReport"
    [] route = "POST /api/incidents" -> "createIncident"
    [] route = "PATCH /api/incidents/:id" -> "updateIncident"
    [] route = "DELETE /api/incidents/:id" -> "deleteIncident"
    [] route = "POST /api/officers" -> "createOfficer"
    [] route = "PATCH /api/officers/:badge" -> "updateOfficer"
    [] route = "DELETE /api/officers/:badge" -> "deleteOfficer"
    [] route = "GET /api/reports/:id/pdf" -> "downloadReportPDF"
    [] route = "POST /api/auth/login" -> "login"
    [] route = "POST /api/auth/register" -> "register"
    [] route = "POST /api/auth/change-password" -> "changePassword"
    [] OTHER -> "read"

\* ------------------------------------------------------------- requests
\* req.params.id: a numeric string (num > 0) or a "CA-..." string (str).
NoParam == [num |-> 0, str |-> <<>>]
Num(n) == [num |-> n, str |-> <<>>]
Str(suffix) == [num |-> 0, str |-> suffix]

\* req.body: a record of the fields the client sent.  A field that is
\* absent reads as undefined, which the handlers test like "".
EmptyBody == [f \in {} |-> ""]
text(body, f) == IF f \in DOMAIN body THEN body[f] ELSE ""
chars(body, f) == IF f \in DOMAIN body THEN body[f] ELSE <<>>
number(body, f) == IF f \in DOMAIN body THEN body[f] ELSE 0

StatQueries == {"total", "open", "investigation", "resolved", "priority"}
NoCounts == [q \in StatQueries |-> 0]
StatHandlers == {"getCaseStatistics", "getDashboardStatistics"}

\* What a handler passes to next(error): the error's code, name and
\* statusCode (0: none).
NoError == [code |-> "", name |-> "", statusCode |-> 0]
PrismaError(code) ==
  [code |-> code, name |-> "PrismaClientKnownRequestError", statusCode |-> 0]

Idle ==
  [pc |-> "idle", route |-> "", hdr |-> NoHeader, id |-> NoParam,
   body |-> EmptyBody, user |-> NoUser, acct |-> "", ran |-> FALSE,
   wrote |-> FALSE, caseId |-> <<>>, lastRow |-> 0, lastCaseId |-> <<>>,
   officerId |-> 0, subject |-> 0, logAt |-> 0, err |-> NoError,
   found |-> 0, generatedPassword |-> "", pending |-> {}, counts |-> NoCounts, token |-> NoToken,
   resp |-> NoResp]

\* res.status(st).json({code}): the request is answered.
Answer(r, st, c) == [r EXCEPT !.pc = "done", !.resp = Resp(st, c)]

\* ----------------------------------------------------------- middleware
\* An authenticate that rejects only a missing header, and takes whatever
\* follows the scheme word as the token.
authenticate_anyScheme(hdr) ==
  IF hdr.scheme = ""
    THEN [next |-> FALSE, resp |-> Resp(401, "NO_TOKEN"), user |-> NoUser]
  ELSE LET decoded == jwtVerify(hdr.token) IN
    IF decoded.error = "JsonWebTokenError"
      THEN [next |-> FALSE, resp |-> Resp(401, "INVALID_TOKEN"), user |-> NoUser]
    ELSE IF decoded.error = "TokenExpiredError"
      THEN [next |-> FALSE, resp |-> Resp(401, "TOKEN_EXPIRED"), user |-> NoUser]
    ELSE IF decoded.userId \notin DOMAIN users
      THEN [next |-> FALSE, resp |-> Resp(401, "USER_NOT_FOUND"), user |-> NoUser]
    ELSE IF users[decoded.userId].status # "active"
      THEN [next |-> FALSE, resp |-> Resp(401, "INACTIVE_USER"), user |-> NoUser]
    ELSE [next |-> TRUE, resp |-> NoResp,
          user |-> [id |-> decoded.userId,
                    username |-> users[decoded.userId].username,
                    role |-> users[decoded.userId].role,
                    status |-> users[decoded.userId].status]]

\* An authenticate that looks the account up but does not read its status.
authenticate_anyStatus(hdr) ==
  IF hdr.scheme # "Bearer"
    THEN [next |-> FALSE, resp |-> Resp(401, "NO_TOKEN"), user |-> NoUser]
  ELSE LET decoded == jwtVerify(hdr.token) IN
    IF decoded.error = "JsonWebTokenError"
      THEN [next |-> FALSE, resp |-> Resp(401, "INVALID_TOKEN"), user |-> NoUser]
    ELSE IF decoded.error = "TokenExpiredError"
      THEN [next |-> FALSE, resp |-> Resp(401, "TOKEN_EXPIRED"), user |-> NoUser]
    ELSE IF decoded.userId \notin DOMAIN users
      THEN [next |-> FALSE, resp |-> Resp(401, "USER_NOT_FOUND"), user |-> NoUser]
    ELSE [next |-> TRUE, resp |-> NoResp,
          user |-> [id |-> decoded.userId,
                    username |-> users[decoded.userId].username,
                    role |-> users[decoded.userId].role,
                    status |-> users[decoded.userId].status]]

\* src/middleware/auth.js authenticate: the response it sends, or next()
\* with the account attached as req.user.
authenticate(hdr) ==
  IF hdr.scheme # "Bearer"
    THEN [next |-> FALSE, resp |-> Resp(401, "NO_TOKEN"), user |-> NoUser]
  ELSE LET decoded == jwtVerify(hdr.token) IN
    IF decoded.error = "JsonWebTokenError"
      THEN [next |-> FALSE, resp |-> Resp(401, "INVALID_TOKEN"), user |-> NoUser]
    ELSE IF decoded.error = "TokenExpiredError"
      THEN [next |-> FALSE, resp |-> Resp(401, "TOKEN_EXPIRED"), user |-> NoUser]
    ELSE IF decoded.userId \notin DOMAIN users
      THEN [next |-> FALSE, resp |-> Resp(401, "USER_NOT_FOUND"), user |-> NoUser]
    ELSE IF users[decoded.userId].status # "active"
      THEN [next |-> FALSE, resp |-> Resp(401, "INACTIVE_USER"), user |-> NoUser]
    ELSE [next |-> TRUE, resp |-> NoResp,
          user |-> [id |-> decoded.userId,
                    username |-> users[decoded.userId].username,
                    role |-> users[decoded.userId].role,
                    status |-> users[decoded.userId].status]]

\* A role gate that lets every authenticated account through.
requireAdmin_anyRole(user) ==
  IF user.id = 0
    THEN [next |-> FALSE, resp |-> Resp(401, "NO_AUTH")]
  ELSE [next |-> TRUE, resp |-> NoResp]

\* src/middleware/admin.js requireAdmin
requireAdmin(user) ==
  IF user.id = 0
    THEN [next |-> FALSE, resp |-> Resp(401, "NO_AUTH")]
  ELSE IF user.role # "admin"
    THEN [next |-> FALSE, resp |-> Resp(403, "FORBIDDEN")]
  ELSE [next |-> TRUE, resp |-> NoResp]

\* An errorHandler without the P2025 branch.
errorHandler_noP2025(err) ==
  IF err.code = "P2002" THEN Resp(409, "DUPLICATE_ENTRY")
  ELSE IF err.name = "ValidationError" THEN Resp(400, "VALIDATION_ERROR")
  ELSE Resp(IF err.statusCode # 0 THEN err.statusCode ELSE 500,
            IF err.code # "" THEN err.code ELSE "INTERNAL_ERROR")

\* An errorHandler that reads P2022 where the code reads P2002.
errorHandler_P2022(err) ==
  IF err.code = "P2022" THEN Resp(409, "DUPLICATE_ENTRY")
  ELSE IF err.code = "P2025" THEN Resp(404, "NOT_FOUND")
  ELSE IF err.name = "ValidationError" THEN Resp(400, "VALIDATION_ERROR")
  ELSE Resp(IF err.statusCode # 0 THEN err.statusCode ELSE 500,
            IF err.code # "" THEN err.code ELSE "INTERNAL_ERROR")

\* src/middleware/errorHandler.js errorHandler
errorHandler(err) ==
  IF err.code = "P2002" THEN Resp(409, "DUPLICATE_ENTRY")
  ELSE IF err.code = "P2025" THEN Resp(404, "NOT_FOUND")
  ELSE IF err.name = "ValidationError" THEN Resp(400, "VALIDATION_ERROR")
  ELSE Resp(IF err.statusCode # 0 THEN err.statusCode ELSE 500,
            IF err.code # "" THEN err.code ELSE "INTERNAL_ERROR")

\* The state of the account a validly signed, unexpired token names, as the
\* store holds it when the token is verified.
AccountOf(hdr) ==
  IF hdr.scheme # "Bearer" \/ jwtVerify(hdr.token).error # "" THEN ""
  ELSE IF hdr.token.userId \notin DOMAIN users THEN "absent"
  ELSE users[hdr.token.userId].status

\* A request arrives and runs the route's middleware chain: authenticate
\* (one findUnique on the user table), then requireAdmin on admin routes,
\* then the handler is entered.
Route(s, rq) ==
  /\ reqs[s].pc = "idle"
  /\ started' = started + 1
  /\ LET r0 == [Idle EXCEPT !.route = rq.route, !.hdr = rq.hdr,
                            !.id = rq.id, !.body = rq.body,
                            !.acct = AccountOf(rq.hdr),
                            !.logAt = Len(activitylog)]
         a == IF rq.route \in ProtectedRoutes \cup SessionRoutes
                THEN authenticate(rq.hdr)
                ELSE [next |-> TRUE, resp |-> NoResp, user |-> NoUser]
         g == IF a.next /\ rq.route \in AdminRoutes
                THEN requireAdmin(a.user)
                ELSE [next |-> TRUE, resp |-> NoResp]
     IN reqs' = [reqs EXCEPT ![s] =
          IF ~a.next THEN Answer(r0, a.resp.status, a.resp.code)
          ELSE IF ~g.next
            THEN Answer([r0 EXCEPT !.user = a.user], g.resp.status, g.resp.code)
          ELSE [r0 EXCEPT !.pc = Handler(rq.route), !.user = a.user,
                          !.ran = TRUE,
                          !.pending = IF Handler(rq.route) \in StatHandlers
                                        THEN StatQueries ELSE {}]]
  /\ UNCHANGED <<store, issued>>

\* A request is received while the run's budget of requests lasts.
Receive(s, rq) ==
  /\ started < MaxRequests
  /\ Route(s, rq)

\* The server takes one of the requests clients may send.
Accept(s, requests) ==
  /\ reqs[s].pc = "idle"
  /\ started < MaxRequests
  /\ \E rq \in requests : Receive(s, rq)

\* The response has been sent; the slot serves the next request.
Finish(s) ==
  /\ reqs[s].pc = "done"
  /\ reqs' = [reqs EXCEPT ![s] = Idle]
  /\ UNCHANGED <<store, issued, started>>


\* ------------------------------------------------------- store queries

\* str.includes / prisma `contains`: sub occurs in str.
Contains(str, sub) ==
  \E i \in 0..(Len(str) - Len(sub)) : SubSeq(str, i + 1, i + Len(sub)) = sub

CaseRow(id) == CHOOSE c \in cases : c.id = id
CaseRowIds == {c.id : c \in cases}

\* prisma.caseFile.findFirst({where: {OR: [{id: isNaN(id) ? undefined :
\* parseInt(id)}, {caseId: id}]}}): the row's id, or 0.
findCase(param) ==
  LET hit == {c.id : c \in {c \in cases :
                 \/ (param.num # 0 /\ c.id = param.num)
                 \/ (param.str # <<>> /\ c.caseId = param.str)}}
  IN IF hit = {} THEN 0 ELSE Min(hit)

\* prisma.user.findFirst({where: {OR: [{username: officer},
\* {name: {contains: officer}}]}}): the account's id, or 0.
findOfficerUser(officer) ==
  LET hit == {u \in DOMAIN users :
                \/ users[u].username = officer
                \/ Contains(users[u].name, officer)}
  IN IF hit = {} THEN 0 ELSE Min(hit)

\* prisma.activitylog.create(...).catch(log): the entry is written unless the
\* store rejects it (fk_activitylog_user); the rejection is swallowed.
logActivity(action, userId, metadata) ==
  IF userId \in DOMAIN users
    THEN Append(activitylog, [action |-> action, userId |-> userId,
                              metadata |-> metadata])
    ELSE activitylog

\* A generateCaseId that orders by id ascending: it reads the oldest row.
generateCaseId_oldestRow ==
  IF cases = {} THEN <<0, 0, 0, 1>>
  ELSE LET lastCase == CaseRow(Min(CaseRowIds))
           lastNumber == parseInt(lastCase.caseId)
       IN NumberToString(lastNumber + 1)

\* ------------------------------------------------------------ createCase
\* case.controller.js generateCaseId
generateCaseId ==
  IF cases = {} THEN <<0, 0, 0, 1>>
  ELSE LET lastCase == CaseRow(Max(CaseRowIds))
           lastNumber == parseInt(lastCase.caseId)
       IN NumberToString(lastNumber + 1)

\* A createCase that would hold the table from its read of the last row to
\* its insert: the read waits while another request holds a computed id.
CreateCase_generateCaseId_serialised(s) ==
  LET r == reqs[s] IN
  /\ r.pc = "createCase"
  /\ \A t \in SlotIds \ {s} :
       reqs[t].pc \notin {"createCase:findOfficer", "createCase:create"}
  /\ reqs' = [reqs EXCEPT ![s] =
       IF text(r.body, "type") = "" \/ text(r.body, "location") = ""
         THEN Answer(r, 400, "MISSING_FIELDS")
         ELSE [r EXCEPT !.caseId = generateCaseId,
                        !.lastRow = IF cases = {} THEN 0 ELSE Max(CaseRowIds),
                        !.lastCaseId = IF cases = {} THEN <<>>
                                       ELSE CaseRow(Max(CaseRowIds)).caseId,
                        !.pc = IF chars(r.body, "officer") # <<>>
                                 THEN "createCase:findOfficer"
                                 ELSE "createCase:create"]]
  /\ UNCHANGED <<store, issued, started>>

\* createCase up to `await generateCaseId()`: validation, then the read of
\* the last row.
CreateCase_generateCaseId(s) ==
  LET r == reqs[s] IN
  /\ r.pc = "createCase"
  /\ reqs' = [reqs EXCEPT ![s] =
       IF text(r.body, "type") = "" \/ text(r.body, "location") = ""
         THEN Answer(r, 400, "MISSING_FIELDS")
         ELSE [r EXCEPT !.caseId = generateCaseId,
                        !.lastRow = IF cases = {} THEN 0 ELSE Max(CaseRowIds),
                        !.lastCaseId = IF cases = {} THEN <<>>
                                       ELSE CaseRow(Max(CaseRowIds)).caseId,
                        !.pc = IF chars(r.body, "officer") # <<>>
                                 THEN "createCase:findOfficer"
                                 ELSE "createCase:create"]]
  /\ UNCHANGED <<store, issued, started>>

\* createCase: `if (officer) { officerUser = await prisma.user.findFirst }`
CreateCase_findOfficer(s) ==
  LET r == reqs[s] IN
  /\ r.pc = "createCase:findOfficer"
  /\ reqs' = [reqs EXCEPT ![s] =
       [r EXCEPT !.officerId = findOfficerUser(chars(r.body, "officer")),
                 !.pc = "createCase:create"]]
  /\ UNCHANGED <<store, issued, started>>

\* A cases table without the UNIQUE INDEX on caseId.
caseCreateError_noUniqueIndex(caseId, officerId, createdById) ==
  IF createdById \notin DOMAIN users THEN "P2003"
  ELSE IF officerId # 0 /\ officerId \notin DOMAIN users THEN "P2003"
  ELSE ""

\* The error prisma.caseFile.create raises, or "": the UNIQUE INDEX caseId,
\* then the foreign keys cases_ibfk_1 (officerId) and cases_ibfk_2
\* (createdById).
caseCreateError(caseId, officerId, createdById) ==
  IF \E c \in cases : c.caseId = caseId THEN "P2002"
  ELSE IF createdById \notin DOMAIN users THEN "P2003"
  ELSE IF officerId # 0 /\ officerId \notin DOMAIN users THEN "P2003"
  ELSE ""

\* A createCase that stores what the body holds and fills in no default.
CreateCase_create_noDefaults(s) ==
  LET r == reqs[s]
      err == caseCreateError(r.caseId, r.officerId, r.user.id)
      newCase == [id |-> nextCaseRow, caseId |-> r.caseId,
                  type |-> text(r.body, "type"), location |-> text(r.body, "location"),
                  priority |-> text(r.body, "priority"),
                  status |-> text(r.body, "status"),
                  officerId |-> r.officerId, createdById |-> r.user.id]
  IN
  /\ r.pc = "createCase:create"
  /\ IF err # ""
       THEN /\ reqs' = [reqs EXCEPT ![s] =
                 Answer(r, errorHandler(PrismaError(err)).status,
                           errorHandler(PrismaError(err)).code)]
            /\ UNCHANGED <<cases, nextCaseRow>>
       ELSE /\ cases' = cases \cup {newCase}
            /\ nextCaseRow' = nextCaseRow + 1
            /\ reqs' = [reqs EXCEPT ![s] =
                 [r EXCEPT !.pc = "createCase:log", !.wrote = TRUE,
                           !.found = nextCaseRow]]
  /\ UNCHANGED <<users, nextUserId, reports, nextReportRow, incidents,
                 nextIncidentRow, officers, activitylog, issued, started>>

\* A createCase whose insert no unique index on caseId guards.
CreateCase_create_noUniqueIndex(s) ==
  LET r == reqs[s]
      err == caseCreateError_noUniqueIndex(r.caseId, r.officerId, r.user.id)
      newCase == [id |-> nextCaseRow, caseId |-> r.caseId,
                  type |-> text(r.body, "type"), location |-> text(r.body, "location"),
                  priority |-> IF text(r.body, "priority") # "" THEN text(r.body, "priority")
                               ELSE "medium",
                  status |-> IF text(r.body, "status") # "" THEN text(r.body, "status")
                             ELSE "open",
                  officerId |-> r.officerId, createdById |-> r.user.id]
  IN
  /\ r.pc = "createCase:create"
  /\ IF err # ""
       THEN /\ reqs' = [reqs EXCEPT ![s] =
                 Answer(r, errorHandler(PrismaError(err)).status,
                           errorHandler(PrismaError(err)).code)]
            /\ UNCHANGED <<cases, nextCaseRow>>
       ELSE /\ cases' = cases \cup {newCase}
            /\ nextCaseRow' = nextCaseRow + 1
            /\ reqs' = [reqs EXCEPT ![s] =
                 [r EXCEPT !.pc = "createCase:log", !.wrote = TRUE,
                           !.found = nextCaseRow]]
  /\ UNCHANGED <<users, nextUserId, reports, nextReportRow, incidents,
                 nextIncidentRow, officers, activitylog, issued, started>>

\* createCase: `await prisma.caseFile.create`; an error goes to next(error).
CreateCase_create(s) ==
  LET r == reqs[s]
      err == caseCreateError(r.caseId, r.officerId, r.user.id)
      newCase == [id |-> nextCaseRow, caseId |-> r.caseId,
                  type |-> text(r.body, "type"), location |-> text(r.body, "location"),
                  priority |-> IF text(r.body, "priority") # "" THEN text(r.body, "priority")
                               ELSE "medium",
                  status |-> IF text(r.body, "status") # "" THEN text(r.body, "status")
                             ELSE "open",
                  officerId |-> r.officerId, createdById |-> r.user.id]
  IN
  /\ r.pc = "createCase:create"
  /\ IF err # ""
       THEN /\ reqs' = [reqs EXCEPT ![s] =
                 Answer(r, errorHandler(PrismaError(err)).status,
                           errorHandler(PrismaError(err)).code)]
            /\ UNCHANGED <<cases, nextCaseRow>>
       ELSE /\ cases' = cases \cup {newCase}
            /\ nextCaseRow' = nextCaseRow + 1
            /\ reqs' = [reqs EXCEPT ![s] =
                 [r EXCEPT !.pc = "createCase:log", !.wrote = TRUE,
                           !.found = nextCaseRow]]
  /\ UNCHANGED <<users, nextUserId, reports, nextReportRow, incidents,
                 nextIncidentRow, officers, activitylog, issued, started>>

\* createCase: the activity entry, then res.status(201).
CreateCase_log(s) ==
  LET r == reqs[s] IN
  /\ r.pc = "createCase:log"
  /\ activitylog' = logActivity("create_case", r.user.id, r.caseId)
  /\ reqs' = [reqs EXCEPT ![s] = Answer(r, 201, "")]
  /\ UNCHANGED <<users, nextUserId, cases, nextCaseRow, reports,
                 nextReportRow, incidents, nextIncidentRow, officers, issued,
                 started>>

\* A createCase that passes a failed log write on to next(error).
CreateCase_logFails_uncaught(s) ==
  LET r == reqs[s] IN
  /\ r.pc = "createCase:log"
  /\ reqs' = [reqs EXCEPT ![s] =
       Answer(r, errorHandler(PrismaError("P1001")).status,
              errorHandler(PrismaError("P1001")).code)]
  /\ UNCHANGED <<store, issued, started>>

\* createCase: prisma.activitylog.create rejects; `.catch` logs the error
\* to the console and the handler goes on to res.status(201).
CreateCase_logFails(s) ==
  LET r == reqs[s] IN
  /\ r.pc = "createCase:log"
  /\ reqs' = [reqs EXCEPT ![s] = Answer(r, 201, "")]
  /\ UNCHANGED <<store, issued, started>>

\* ------------------------------------------------------------ deleteCase
\* deleteCase: the existence check.
DeleteCase_find(s) ==
  LET r == reqs[s]
      existingCase == findCase(r.id)
  IN
  /\ r.pc = "deleteCase"
  /\ reqs' = [reqs EXCEPT ![s] =
       IF existingCase = 0 THEN Answer(r, 404, "CASE_NOT_FOUND")
       ELSE [r EXCEPT !.found = existingCase, !.pc = "deleteCase:delete"]]
  /\ UNCHANGED <<store, issued, started>>

\* A deleteCase that removes with deleteMany: no row to remove is no error.
DeleteCase_delete_deleteMany(s) ==
  LET r == reqs[s] IN
  /\ r.pc = "deleteCase:delete"
  /\ cases' = {c \in cases : c.id # r.found}
  /\ reports' = {IF x.caseId = r.found
                   THEN [x EXCEPT !.caseId = 0] ELSE x : x \in reports}
  /\ incidents' = {IF x.caseId = r.found
                     THEN [x EXCEPT !.caseId = 0] ELSE x : x \in incidents}
  /\ reqs' = [reqs EXCEPT ![s] = Answer([r EXCEPT !.wrote = TRUE], 200, "")]
  /\ UNCHANGED <<users, nextUserId, nextCaseRow, nextReportRow,
                 nextIncidentRow, officers, activitylog, issued, started>>

\* deleteCase: `await prisma.caseFile.delete({where: {id}})`; P2025 when the
\* row is gone.  reports_ibfk_1 and incidents_ibfk_1 are ON DELETE SET NULL.
DeleteCase_delete(s) ==
  LET r == reqs[s] IN
  /\ r.pc = "deleteCase:delete"
  /\ IF r.found \notin CaseRowIds
       THEN /\ reqs' = [reqs EXCEPT ![s] =
                 Answer(r, errorHandler(PrismaError("P2025")).status,
                        errorHandler(PrismaError("P2025")).code)]
            /\ UNCHANGED <<cases, reports, incidents>>
       ELSE /\ cases' = {c \in cases : c.id # r.found}
            /\ reports' = {IF x.caseId = r.found
                             THEN [x EXCEPT !.caseId = 0] ELSE x : x \in reports}
            /\ incidents' = {IF x.caseId = r.found
                               THEN [x EXCEPT !.caseId = 0] ELSE x : x \in incidents}
            /\ reqs' = [reqs EXCEPT ![s] =
                 Answer([r EXCEPT !.wrote = TRUE], 200, "")]
  /\ UNCHANGED <<users, nextUserId, nextCaseRow, nextReportRow,
                 nextIncidentRow, officers, activitylog, issued, started>>

\* ------------------------------------------------------------ statistics
\* prisma.caseFile.count({where})
count(q) ==
  CASE q = "total" -> Cardinality(cases)
    [] q = "priority" -> Cardinality({c \in cases : c.priority = "high"})
    [] OTHER -> Cardinality({c \in cases : c.status = q})

\* One of the count queries Promise.all has in flight completes; the
\* response is sent when the last one has.
CountStep(s, q) ==
  LET r == reqs[s]
      r1 == [r EXCEPT !.counts[q] = count(q), !.pending = r.pending \ {q}]
  IN
  /\ q \in r.pending
  /\ reqs' = [reqs EXCEPT ![s] =
       IF r1.pending = {} THEN Answer(r1, 200, "") ELSE r1]
  /\ UNCHANGED <<store, issued, started>>

\* case.controller.js getCaseStatistics
GetCaseStatistics_count(s, q) ==
  /\ reqs[s].pc = "getCaseStatistics"
  /\ CountStep(s, q)

\* dashboard.controller.js getDashboardStatistics
GetDashboardStatistics_count(s, q) ==
  /\ reqs[s].pc = "getDashboardStatistics"
  /\ CountStep(s, q)


\* ----------------------------------------------------------------- login
\* prisma.user.findUnique({where: {username}}): the account's id, or 0.
findUserByUsername(username) ==
  LET hit == {u \in DOMAIN users : users[u].username = username}
  IN IF hit = {} THEN 0 ELSE Min(hit)

\* What the store holds, when login looks the account up, for the
\* credentials as the client sent them: the id of the active account with
\* exactly this username and password, or 0.
CredentialsSubject(body) ==
  LET hit == {u \in DOMAIN users :
                /\ users[u].username = chars(body, "username")
                /\ bcryptCompare(text(body, "password"), users[u].password)
                /\ users[u].status = "active"}
  IN IF hit = {} THEN 0 ELSE Min(hit)

\* What the store holds for the account login looks up: "unknown",
\* "wrong-password", or the account's status.
CredentialsState(body) ==
  LET u == findUserByUsername(trim(chars(body, "username"))) IN
  IF u = 0 THEN "unknown"
  ELSE IF ~bcryptCompare(text(body, "password"), users[u].password)
    THEN "wrong-password"
  ELSE users[u].status

\* A login that does not read the account's status.
Login_find_anyStatus(s) ==
  LET r == reqs[s]
      r0 == [r EXCEPT !.subject = CredentialsSubject(r.body),
                      !.acct = CredentialsState(r.body)]
      user == findUserByUsername(trim(chars(r.body, "username")))
  IN
  /\ r.pc = "login"
  /\ reqs' = [reqs EXCEPT ![s] =
       IF chars(r.body, "username") = <<>> \/ text(r.body, "password") = ""
         THEN Answer(r0, 400, "MISSING_CREDENTIALS")
       ELSE IF user = 0
         THEN Answer(r0, 401, "INVALID_CREDENTIALS")
       ELSE IF ~bcryptCompare(text(r.body, "password"), users[user].password)
         THEN Answer(r0, 401, "INVALID_CREDENTIALS")
       ELSE [r0 EXCEPT !.found = user, !.token = generateToken(user),
                       !.pc = "login:log"]]
  /\ UNCHANGED <<store, issued, started>>

\* login up to the activity entry: validation, the account lookup, and on
\* the account read the password and status checks and generateToken.
Login_find(s) ==
  LET r == reqs[s]
      r0 == [r EXCEPT !.subject = CredentialsSubject(r.body),
                      !.acct = CredentialsState(r.body)]
      user == findUserByUsername(trim(chars(r.body, "username")))
  IN
  /\ r.pc = "login"
  /\ reqs' = [reqs EXCEPT ![s] =
       IF chars(r.body, "username") = <<>> \/ text(r.body, "password") = ""
         THEN Answer(r0, 400, "MISSING_CREDENTIALS")
       ELSE IF user = 0
         THEN Answer(r0, 401, "INVALID_CREDENTIALS")
       ELSE IF ~bcryptCompare(text(r.body, "password"), users[user].password)
         THEN Answer(r0, 401, "INVALID_CREDENTIALS")
       ELSE IF users[user].status # "active"
         THEN Answer(r0, 401, "INACTIVE_USER")
       ELSE [r0 EXCEPT !.found = user, !.token = generateToken(user),
                       !.pc = "login:log"]]
  /\ UNCHANGED <<store, issued, started>>

\* login: the 'login' activity entry, then the response with the token.
Login_log(s) ==
  LET r == reqs[s] IN
  /\ r.pc = "login:log"
  /\ activitylog' = logActivity("login", r.found, <<>>)
  /\ issued' = issued \cup {r.token}
  /\ reqs' = [reqs EXCEPT ![s] =
       Answer([r EXCEPT !.wrote = (r.found \in DOMAIN users)], 200, "")]
  /\ UNCHANGED <<users, nextUserId, cases, nextCaseRow, reports,
                 nextReportRow, incidents, nextIncidentRow, officers, started>>

\* -------------------------------------------------------------- register
\* The account register stores: no email, the role the body names.
registerData(body) ==
  [username |-> chars(body, "username"),
   name |-> IF chars(body, "name") # <<>> THEN chars(body, "name")
            ELSE chars(body, "username"),
   email |-> <<>>,
   department |-> IF text(body, "department") # ""
                    THEN text(body, "department") ELSE "General",
   password |-> bcryptHash(text(body, "password")),
   role |-> IF text(body, "role") # "" THEN text(body, "role") ELSE "officer",
   status |-> "active"]

\* register: validation, then the username lookup.
Register_find(s) ==
  LET r == reqs[s] IN
  /\ r.pc = "register"
  /\ reqs' = [reqs EXCEPT ![s] =
       IF chars(r.body, "username") = <<>> \/ text(r.body, "password") = ""
         THEN Answer(r, 400, "MISSING_FIELDS")
       ELSE IF Len(text(r.body, "password")) < 6
         THEN Answer(r, 400, "WEAK_PASSWORD")
       ELSE IF findUserByUsername(chars(r.body, "username")) # 0
         THEN Answer(r, 400, "USER_EXISTS")
       ELSE [r EXCEPT !.pc = "register:create"]]
  /\ UNCHANGED <<store, issued, started>>

\* A register whose insert no unique index guards.
Register_create_noUniqueIndex(s) ==
  LET r == reqs[s] IN
  /\ r.pc = "register:create"
  /\ users' = users @@ (nextUserId :> registerData(r.body))
  /\ nextUserId' = nextUserId + 1
  /\ reqs' = [reqs EXCEPT ![s] =
       [r EXCEPT !.wrote = TRUE, !.found = nextUserId,
                 !.token = generateToken(nextUserId),
                 !.pc = "register:log"]]
  /\ UNCHANGED <<cases, nextCaseRow, reports, nextReportRow, incidents,
                 nextIncidentRow, officers, activitylog, issued, started>>

\* register: `await prisma.user.create` (UNIQUE INDEX User_username_key),
\* then the token is signed.
Register_create(s) ==
  LET r == reqs[s] IN
  /\ r.pc = "register:create"
  /\ IF findUserByUsername(chars(r.body, "username")) # 0
       THEN /\ reqs' = [reqs EXCEPT ![s] =
                 Answer(r, errorHandler(PrismaError("P2002")).status,
                        errorHandler(PrismaError("P2002")).code)]
            /\ UNCHANGED <<users, nextUserId>>
       ELSE /\ users' = users @@ (nextUserId :> registerData(r.body))
            /\ nextUserId' = nextUserId + 1
            /\ reqs' = [reqs EXCEPT ![s] =
                 [r EXCEPT !.wrote = TRUE, !.found = nextUserId,
                           !.token = generateToken(nextUserId),
                           !.pc = "register:log"]]
  /\ UNCHANGED <<cases, nextCaseRow, reports, nextReportRow, incidents,
                 nextIncidentRow, officers, activitylog, issued, started>>

\* register: the 'register' activity entry, then 201 with the token.
Register_log(s) ==
  LET r == reqs[s] IN
  /\ r.pc = "register:log"
  /\ activitylog' = logActivity("register", r.found, <<>>)
  /\ issued' = issued \cup {r.token}
  /\ reqs' = [reqs EXCEPT ![s] = Answer(r, 201, "")]
  /\ UNCHANGED <<users, nextUserId, cases, nextCaseRow, reports,
                 nextReportRow, incidents, nextIncidentRow, officers, started>>

\* -------------------------------------------------------- changePassword
\* changePassword: validation, the account lookup and bcrypt.compare.
ChangePassword_find(s) ==
  LET r == reqs[s]
      userId == r.user.id
  IN
  /\ r.pc = "changePassword"
  /\ reqs' = [reqs EXCEPT ![s] =
       IF text(r.body, "currentPassword") = ""
            \/ text(r.body, "newPassword") = ""
         THEN Answer(r, 400, "MISSING_FIELDS")
       ELSE IF Len(text(r.body, "newPassword")) < 6
         THEN Answer(r, 400, "WEAK_PASSWORD")
       ELSE IF userId \notin DOMAIN users
         THEN Answer(r, 404, "USER_NOT_FOUND")
       ELSE IF ~bcryptCompare(text(r.body, "currentPassword"),
                              users[userId].password)
         THEN Answer(r, 401, "INVALID_PASSWORD")
       ELSE [r EXCEPT !.found = userId, !.pc = "changePassword:update"]]
  /\ UNCHANGED <<store, issued, started>>

\* changePassword: bcrypt.hash and `await prisma.user.update` (P2025 when
\* the row is gone).
ChangePassword_update(s) ==
  LET r == reqs[s] IN
  /\ r.pc = "changePassword:update"
  /\ IF r.found \notin DOMAIN users
       THEN /\ reqs' = [reqs EXCEPT ![s] =
                 Answer(r, errorHandler(PrismaError("P2025")).status,
                        errorHandler(PrismaError("P2025")).code)]
            /\ UNCHANGED users
       ELSE /\ users' = [users EXCEPT ![r.found].password =
                           bcryptHash(text(r.body, "newPassword"))]
            /\ reqs' = [reqs EXCEPT ![s] =
                 [r EXCEPT !.wrote = TRUE, !.pc = "changePassword:log"]]
  /\ UNCHANGED <<nextUserId, cases, nextCaseRow, reports, nextReportRow,
                 incidents, nextIncidentRow, officers, activitylog, issued,
                 started>>

\* changePassword: the 'change_password' activity entry, then the response.
ChangePassword_log(s) ==
  LET r == reqs[s] IN
  /\ r.pc = "changePassword:log"
  /\ activitylog' = logActivity("change_password", r.found, <<>>)
  /\ reqs' = [reqs EXCEPT ![s] = Answer(r, 200, "")]
  /\ UNCHANGED <<users, nextUserId, cases, nextCaseRow, reports,
                 nextReportRow, incidents, nextIncidentRow, officers, issued,
                 started>>

\* ------------------------------------------------------------ updateUser
\* An updateUser that copies role and status for any requester.
updateUserData_anyRequester(requester, body, old) ==
  [old EXCEPT
     !.email = IF chars(body, "email") # <<>> THEN chars(body, "email") ELSE @,
     !.name = IF chars(body, "name") # <<>> THEN chars(body, "name") ELSE @,
     !.department = IF text(body, "department") # ""
                      THEN text(body, "department") ELSE @,
     !.role = IF text(body, "role") # "" THEN text(body, "role") ELSE @,
     !.status = IF text(body, "status") # "" THEN text(body, "status") ELSE @,
     !.password = IF text(body, "password") # ""
                    THEN bcryptHash(text(body, "password")) ELSE @]

\* The `data` updateUser builds, applied to the stored account.
updateUserData(requester, body, old) ==
  [old EXCEPT
     !.email = IF chars(body, "email") # <<>> THEN chars(body, "email") ELSE @,
     !.name = IF chars(body, "name") # <<>> THEN chars(body, "name") ELSE @,
     !.department = IF text(body, "department") # ""
                      THEN text(body, "department") ELSE @,
     !.role = IF requester.role = "admin" /\ text(body, "role") # ""
                THEN text(body, "role") ELSE @,
     !.status = IF requester.role = "admin" /\ text(body, "status") # ""
                  THEN text(body, "status") ELSE @,
     !.password = IF text(body, "password") # "" THEN bcryptHash(text(body, "password"))
                  ELSE @]

\* An updateUser without the password length rule.
UpdateUser_update_anyPassword(s) ==
  LET r == reqs[s]
      userId == r.id.num
  IN
  /\ r.pc = "updateUser"
  /\ IF r.user.id # userId /\ r.user.role # "admin"
       THEN /\ reqs' = [reqs EXCEPT ![s] = Answer(r, 403, "FORBIDDEN")]
            /\ UNCHANGED users
     ELSE IF userId \notin DOMAIN users
       THEN /\ reqs' = [reqs EXCEPT ![s] =
                 Answer(r, errorHandler(PrismaError("P2025")).status,
                        errorHandler(PrismaError("P2025")).code)]
            /\ UNCHANGED users
     ELSE IF \E u \in DOMAIN users \ {userId} :
               /\ chars(r.body, "email") # <<>>
               /\ users[u].email = chars(r.body, "email")
       THEN /\ reqs' = [reqs EXCEPT ![s] =
                 Answer(r, errorHandler(PrismaError("P2002")).status,
                        errorHandler(PrismaError("P2002")).code)]
            /\ UNCHANGED users
     ELSE /\ users' = [users EXCEPT
                 ![userId] = updateUserData(r.user, r.body, @)]
          /\ reqs' = [reqs EXCEPT ![s] =
               Answer([r EXCEPT !.wrote = TRUE], 200, "")]
  /\ UNCHANGED <<nextUserId, cases, nextCaseRow, reports, nextReportRow,
                 incidents, nextIncidentRow, officers, activitylog, issued,
                 started>>

\* updateUser: the permission check, the password rule, prisma.user.update
\* (P2025 when the row is gone, P2002 on the UNIQUE INDEX email).
UpdateUser_update(s) ==
  LET r == reqs[s]
      userId == r.id.num
  IN
  /\ r.pc = "updateUser"
  /\ IF r.user.id # userId /\ r.user.role # "admin"
       THEN /\ reqs' = [reqs EXCEPT ![s] = Answer(r, 403, "FORBIDDEN")]
            /\ UNCHANGED users
     ELSE IF text(r.body, "password") # "" /\ Len(text(r.body, "password")) < 6
       THEN /\ reqs' = [reqs EXCEPT ![s] = Answer(r, 400, "WEAK_PASSWORD")]
            /\ UNCHANGED users
     ELSE IF userId \notin DOMAIN users
       THEN /\ reqs' = [reqs EXCEPT ![s] =
                 Answer(r, errorHandler(PrismaError("P2025")).status,
                        errorHandler(PrismaError("P2025")).code)]
            /\ UNCHANGED users
     ELSE IF \E u \in DOMAIN users \ {userId} :
               /\ chars(r.body, "email") # <<>>
               /\ users[u].email = chars(r.body, "email")
       THEN /\ reqs' = [reqs EXCEPT ![s] =
                 Answer(r, errorHandler(PrismaError("P2002")).status,
                        errorHandler(PrismaError("P2002")).code)]
            /\ UNCHANGED users
     ELSE /\ users' = [users EXCEPT
                 ![userId] = updateUserData(r.user, r.body, @)]
          /\ reqs' = [reqs EXCEPT ![s] =
               Answer([r EXCEPT !.wrote = TRUE], 200, "")]
  /\ UNCHANGED <<nextUserId, cases, nextCaseRow, reports, nextReportRow,
                 incidents, nextIncidentRow, officers, activitylog, issued,
                 started>>

\* ------------------------------------------------------------ deleteUser
\* A deleteUser without the self-deletion guard.
DeleteUser_find_unguarded(s) ==
  LET r == reqs[s] IN
  /\ r.pc = "deleteUser"
  /\ reqs' = [reqs EXCEPT ![s] = [r EXCEPT !.pc = "deleteUser:delete"]]
  /\ UNCHANGED <<store, issued, started>>

\* deleteUser: the self-deletion guard, then the findUnique whose result is
\* only logged.
DeleteUser_find(s) ==
  LET r == reqs[s] IN
  /\ r.pc = "deleteUser"
  /\ reqs' = [reqs EXCEPT ![s] =
       IF r.user.id = r.id.num THEN Answer(r, 400, "SELF_DELETE")
       ELSE [r EXCEPT !.pc = "deleteUser:delete"]]
  /\ UNCHANGED <<store, issued, started>>

\* A schema whose cases_ibfk_2 and reports_ibfk_2 do not restrict the delete.
userDeleteError_noRestrict(userId) ==
  IF userId \notin DOMAIN users THEN "P2025" ELSE ""

\* The error prisma.user.delete raises, or "": P2025 when the row is gone,
\* P2003 when cases_ibfk_2 or reports_ibfk_2 (ON DELETE RESTRICT) holds it.
userDeleteError(userId) ==
  IF userId \notin DOMAIN users THEN "P2025"
  ELSE IF (\E c \in cases : c.createdById = userId)
            \/ (\E x \in reports : x.generatedById = userId) THEN "P2003"
  ELSE ""

\* A deleteUser over a schema whose fk_activitylog_user is ON DELETE
\* CASCADE: the account's entries go with it.
DeleteUser_delete_cascade(s) ==
  LET r == reqs[s]
      userId == r.id.num
      err == userDeleteError(userId)
  IN
  /\ r.pc = "deleteUser:delete"
  /\ IF err # ""
       THEN /\ reqs' = [reqs EXCEPT ![s] =
                 Answer(r, errorHandler(PrismaError(err)).status,
                           errorHandler(PrismaError(err)).code)]
            /\ UNCHANGED <<users, cases, activitylog>>
       ELSE /\ users' = [u \in DOMAIN users \ {userId} |-> users[u]]
            /\ cases' = {IF c.officerId = userId
                           THEN [c EXCEPT !.officerId = 0] ELSE c : c \in cases}
            /\ activitylog' =
                 SelectSeq(activitylog, LAMBDA e : e.userId # userId)
            /\ reqs' = [reqs EXCEPT ![s] =
                 Answer([r EXCEPT !.wrote = TRUE], 200, "")]
  /\ UNCHANGED <<nextUserId, nextCaseRow, reports, nextReportRow, incidents,
                 nextIncidentRow, officers, issued, started>>

\* deleteUser: `await prisma.user.delete`.  cases_ibfk_1 and
\* fk_activitylog_user are ON DELETE SET NULL.
DeleteUser_delete(s) ==
  LET r == reqs[s]
      userId == r.id.num
      err == userDeleteError(userId)
  IN
  /\ r.pc = "deleteUser:delete"
  /\ IF err # ""
       THEN /\ reqs' = [reqs EXCEPT ![s] =
                 Answer(r, errorHandler(PrismaError(err)).status,
                           errorHandler(PrismaError(err)).code)]
            /\ UNCHANGED <<users, cases, activitylog>>
       ELSE /\ users' = [u \in DOMAIN users \ {userId} |-> users[u]]
            /\ cases' = {IF c.officerId = userId
                           THEN [c EXCEPT !.officerId = 0] ELSE c : c \in cases}
            /\ activitylog' =
                 [i \in DOMAIN activitylog |->
                    IF activitylog[i].userId = userId
                      THEN [activitylog[i] EXCEPT !.userId = 0]
                      ELSE activitylog[i]]
            /\ reqs' = [reqs EXCEPT ![s] =
                 Answer([r EXCEPT !.wrote = TRUE], 200, "")]
  /\ UNCHANGED <<nextUserId, nextCaseRow, reports, nextReportRow, incidents,
                 nextIncidentRow, officers, issued, started>>

\* --------------------------------------------------------------- reports
ReportRow(id) == CHOOSE x \in reports : x.id = id
ReportRowIds == {x.id : x \in reports}

\* report.controller.js generateReportId ("RPT-<suffix>")
generateReportId ==
  IF reports = {} THEN <<1, 0, 2, 6>>
  ELSE LET lastReport == ReportRow(Max(ReportRowIds))
           lastNumber == parseInt(lastReport.reportId)
       IN NumberToString(lastNumber + 1)

\* prisma.report.findFirst({where: {OR: [{id}, {reportId: id}]}})
findReport(param) ==
  LET hit == {x.id : x \in {x \in reports :
                 \/ (param.num # 0 /\ x.id = param.num)
                 \/ (param.str # <<>> /\ x.reportId = param.str)}}
  IN IF hit = {} THEN 0 ELSE Min(hit)

\* createReport up to `await generateReportId()`.
CreateReport_generateReportId(s) ==
  LET r == reqs[s] IN
  /\ r.pc = "createReport"
  /\ reqs' = [reqs EXCEPT ![s] =
       IF text(r.body, "type") = "" THEN Answer(r, 400, "MISSING_FIELDS")
       ELSE [r EXCEPT !.caseId = generateReportId,
                      !.pc = "createReport:create"]]
  /\ UNCHANGED <<store, issued, started>>

\* createReport: `await prisma.report.create` (UNIQUE INDEX reportId,
\* reports_ibfk_2), then res.status(201); no activity entry is written.
CreateReport_create(s) ==
  LET r == reqs[s]
      err == IF \E x \in reports : x.reportId = r.caseId THEN "P2002"
             ELSE IF r.user.id \notin DOMAIN users THEN "P2003"
             ELSE ""
  IN
  /\ r.pc = "createReport:create"
  /\ IF err # ""
       THEN /\ reqs' = [reqs EXCEPT ![s] =
                 Answer(r, errorHandler(PrismaError(err)).status,
                           errorHandler(PrismaError(err)).code)]
            /\ UNCHANGED <<reports, nextReportRow>>
       ELSE /\ reports' = reports \cup
                 {[id |-> nextReportRow, reportId |-> r.caseId, caseId |-> 0,
                   generatedById |-> r.user.id]}
            /\ nextReportRow' = nextReportRow + 1
            /\ reqs' = [reqs EXCEPT ![s] =
                 Answer([r EXCEPT !.wrote = TRUE], 201, "")]
  /\ UNCHANGED <<users, nextUserId, cases, nextCaseRow, incidents,
                 nextIncidentRow, officers, activitylog, issued, started>>

\* deleteReport: the existence check.
DeleteReport_find(s) ==
  LET r == reqs[s]
      existingReport == findReport(r.id)
  IN
  /\ r.pc = "deleteReport"
  /\ reqs' = [reqs EXCEPT ![s] =
       IF existingReport = 0 THEN Answer(r, 404, "REPORT_NOT_FOUND")
       ELSE [r EXCEPT !.found = existingReport, !.pc = "deleteReport:delete"]]
  /\ UNCHANGED <<store, issued, started>>

\* deleteReport: `await prisma.report.delete`.
DeleteReport_delete(s) ==
  LET r == reqs[s] IN
  /\ r.pc = "deleteReport:delete"
  /\ IF r.found \notin ReportRowIds
       THEN /\ reqs' = [reqs EXCEPT ![s] =
                 Answer(r, errorHandler(PrismaError("P2025")).status,
                        errorHandler(PrismaError("P2025")).code)]
            /\ UNCHANGED reports
       ELSE /\ reports' = {x \in reports : x.id # r.found}
            /\ reqs' = [reqs EXCEPT ![s] =
                 Answer([r EXCEPT !.wrote = TRUE], 200, "")]
  /\ UNCHANGED <<users, nextUserId, cases, nextCaseRow, nextReportRow,
                 incidents, nextIncidentRow, officers, activitylog, issued,
                 started>>

\* downloadReportPDF: the lookup; the document is sent before the entry is
\* written.
DownloadReportPDF_find(s) ==
  LET r == reqs[s]
      report == findReport(r.id)
  IN
  /\ r.pc = "downloadReportPDF"
  /\ reqs' = [reqs EXCEPT ![s] =
       IF report = 0 THEN Answer(r, 404, "REPORT_NOT_FOUND")
       ELSE [r EXCEPT !.found = report, !.resp = Resp(200, ""),
                      !.caseId = ReportRow(report).reportId,
                      !.pc = "downloadReportPDF:log"]]
  /\ UNCHANGED <<store, issued, started>>

\* downloadReportPDF: the 'download_report' activity entry.
DownloadReportPDF_log(s) ==
  LET r == reqs[s] IN
  /\ r.pc = "downloadReportPDF:log"
  /\ activitylog' = logActivity("download_report", r.user.id, r.caseId)
  /\ reqs' = [reqs EXCEPT ![s] =
       [r EXCEPT !.pc = "done", !.wrote = (r.user.id \in DOMAIN users)]]
  /\ UNCHANGED <<users, nextUserId, cases, nextCaseRow, reports,
                 nextReportRow, incidents, nextIncidentRow, officers, issued,
                 started>>

\* ------------------------------------------------------------- incidents
\* createIncident: validation, `await prisma.incident.create`,
\* res.status(201).
CreateIncident_create(s) ==
  LET r == reqs[s] IN
  /\ r.pc = "createIncident"
  /\ IF \/ text(r.body, "type") = ""
        \/ text(r.body, "description") = ""
        \/ text(r.body, "address") = ""
       THEN /\ reqs' = [reqs EXCEPT ![s] = Answer(r, 400, "MISSING_FIELDS")]
            /\ UNCHANGED <<incidents, nextIncidentRow>>
       ELSE /\ incidents' = incidents \cup
                 {[id |-> nextIncidentRow, caseId |-> 0,
                   priority |-> IF text(r.body, "priority") # "" THEN text(r.body, "priority")
                                ELSE "low",
                   status |-> IF text(r.body, "status") # "" THEN text(r.body, "status")
                              ELSE "active"]}
            /\ nextIncidentRow' = nextIncidentRow + 1
            /\ reqs' = [reqs EXCEPT ![s] =
                 Answer([r EXCEPT !.wrote = TRUE], 201, "")]
  /\ UNCHANGED <<users, nextUserId, cases, nextCaseRow, reports,
                 nextReportRow, officers, activitylog, issued, started>>

\* deleteIncident: `await prisma.incident.delete({where: {id}})`.
DeleteIncident_delete(s) ==
  LET r == reqs[s] IN
  /\ r.pc = "deleteIncident"
  /\ IF r.id.num \notin {x.id : x \in incidents}
       THEN /\ reqs' = [reqs EXCEPT ![s] =
                 Answer(r, errorHandler(PrismaError("P2025")).status,
                        errorHandler(PrismaError("P2025")).code)]
            /\ UNCHANGED incidents
       ELSE /\ incidents' = {x \in incidents : x.id # r.id.num}
            /\ reqs' = [reqs EXCEPT ![s] =
                 Answer([r EXCEPT !.wrote = TRUE], 200, "")]
  /\ UNCHANGED <<users, nextUserId, cases, nextCaseRow, reports,
                 nextReportRow, nextIncidentRow, officers, activitylog,
                 issued, started>>

\* -------------------------------------------------------------- officers
\* deleteOfficer: `await prisma.officer.delete({where: {badge}})`.
DeleteOfficer_delete(s) ==
  LET r == reqs[s] IN
  /\ r.pc = "deleteOfficer"
  /\ IF r.id.num \notin {o.badge : o \in officers}
       THEN /\ reqs' = [reqs EXCEPT ![s] =
                 Answer(r, errorHandler(PrismaError("P2025")).status,
                        errorHandler(PrismaError("P2025")).code)]
            /\ UNCHANGED officers
       ELSE /\ officers' = {o \in officers : o.badge # r.id.num}
            /\ reqs' = [reqs EXCEPT ![s] =
                 Answer([r EXCEPT !.wrote = TRUE], 200, "")]
  /\ UNCHANGED <<users, nextUserId, cases, nextCaseRow, reports,
                 nextReportRow, incidents, nextIncidentRow, activitylog,
                 issued, started>>

\* ------------------------------------------------------------ updateCase
\* updateCase: the existence check.
UpdateCase_find(s) ==
  LET r == reqs[s]
      existingCase == findCase(r.id)
  IN
  /\ r.pc = "updateCase"
  /\ reqs' = [reqs EXCEPT ![s] =
       IF existingCase = 0 THEN Answer(r, 404, "CASE_NOT_FOUND")
       ELSE [r EXCEPT !.found = existingCase,
                      !.pc = IF chars(r.body, "officer") # <<>>
                               THEN "updateCase:findOfficer"
                               ELSE "updateCase:update"]]
  /\ UNCHANGED <<store, issued, started>>

\* updateCase: the officer lookup, made when `officer` is a non-empty name.
UpdateCase_findOfficer(s) ==
  LET r == reqs[s] IN
  /\ r.pc = "updateCase:findOfficer"
  /\ reqs' = [reqs EXCEPT ![s] =
       [r EXCEPT !.officerId = findOfficerUser(chars(r.body, "officer")),
                 !.pc = "updateCase:update"]]
  /\ UNCHANGED <<store, issued, started>>

\* An updateCase that clears the assignment when the officer named in the
\* body resolves to no account.
updateCaseData_unresolvedClears(body, officerId, old) ==
  [old EXCEPT
     !.type = IF text(body, "type") # "" THEN text(body, "type") ELSE @,
     !.priority = IF text(body, "priority") # ""
                    THEN text(body, "priority") ELSE @,
     !.location = IF text(body, "location") # ""
                    THEN text(body, "location") ELSE @,
     !.status = IF text(body, "status") # "" THEN text(body, "status") ELSE @,
     !.officerId = IF "officer" \notin DOMAIN body THEN @ ELSE officerId]

\* The `data` updateCase builds, applied to the stored row.  officerId is
\* the account the officer lookup found (0: none).
updateCaseData(body, officerId, old) ==
  [old EXCEPT
     !.type = IF text(body, "type") # "" THEN text(body, "type") ELSE @,
     !.priority = IF text(body, "priority") # ""
                    THEN text(body, "priority") ELSE @,
     !.location = IF text(body, "location") # ""
                    THEN text(body, "location") ELSE @,
     !.status = IF text(body, "status") # "" THEN text(body, "status") ELSE @,
     !.officerId = IF "officer" \notin DOMAIN body THEN @
                   ELSE IF chars(body, "officer") = <<>> THEN 0
                   ELSE IF officerId # 0 THEN officerId
                   ELSE @]

\* updateCase: `await prisma.caseFile.update` (P2025 when the row is gone,
\* P2003 on cases_ibfk_1).
UpdateCase_update(s) ==
  LET r == reqs[s]
      err == IF r.found \notin CaseRowIds THEN "P2025"
             ELSE IF r.officerId # 0 /\ r.officerId \notin DOMAIN users
               THEN "P2003"
             ELSE ""
  IN
  /\ r.pc = "updateCase:update"
  /\ IF err # ""
       THEN /\ reqs' = [reqs EXCEPT ![s] =
                 Answer(r, errorHandler(PrismaError(err)).status,
                           errorHandler(PrismaError(err)).code)]
            /\ UNCHANGED cases
       ELSE /\ cases' = {IF c.id = r.found
                           THEN updateCaseData(r.body, r.officerId, c)
                           ELSE c : c \in cases}
            /\ reqs' = [reqs EXCEPT ![s] =
                 [r EXCEPT !.pc = "updateCase:log", !.wrote = TRUE,
                           !.caseId = CaseRow(r.found).caseId]]
  /\ UNCHANGED <<users, nextUserId, nextCaseRow, reports, nextReportRow,
                 incidents, nextIncidentRow, officers, activitylog, issued,
                 started>>

\* updateCase: the 'update_case' activity entry, then the response.
UpdateCase_log(s) ==
  LET r == reqs[s] IN
  /\ r.pc = "updateCase:log"
  /\ activitylog' = logActivity("update_case", r.user.id, r.caseId)
  /\ reqs' = [reqs EXCEPT ![s] = Answer(r, 200, "")]
  /\ UNCHANGED <<users, nextUserId, cases, nextCaseRow, reports,
                 nextReportRow, incidents, nextIncidentRow, officers, issued,
                 started>>

\* updateCase: prisma.activitylog.create rejects; `.catch` logs the error
\* to the console and the handler goes on to res.json.
UpdateCase_logFails(s) ==
  LET r == reqs[s] IN
  /\ r.pc = "updateCase:log"
  /\ reqs' = [reqs EXCEPT ![s] = Answer(r, 200, "")]
  /\ UNCHANGED <<store, issued, started>>

\* -------------------------------------------------------- updateIncident
\* updateIncident: `await prisma.incident.update({where: {id}, data})`.
UpdateIncident_update(s) ==
  LET r == reqs[s] IN
  /\ r.pc = "updateIncident"
  /\ IF r.id.num \notin {x.id : x \in incidents}
       THEN /\ reqs' = [reqs EXCEPT ![s] =
                 Answer(r, errorHandler(PrismaError("P2025")).status,
                        errorHandler(PrismaError("P2025")).code)]
            /\ UNCHANGED incidents
       ELSE /\ incidents' =
                 {IF x.id = r.id.num
                    THEN [x EXCEPT
                            !.priority = IF text(r.body, "priority") # ""
                                           THEN text(r.body, "priority") ELSE @,
                            !.status = IF text(r.body, "status") # ""
                                         THEN text(r.body, "status") ELSE @]
                    ELSE x : x \in incidents}
            /\ reqs' = [reqs EXCEPT ![s] =
                 Answer([r EXCEPT !.wrote = TRUE], 200, "")]
  /\ UNCHANGED <<users, nextUserId, cases, nextCaseRow, reports,
                 nextReportRow, nextIncidentRow, officers, activitylog,
                 issued, started>>

\* ------------------------------------------------------------ createUser
\* /^[^\s@]+@[^\s@]+\.[^\s@]+$/.test(email)
NoBlankNoAt(str) ==
  /\ str # <<>>
  /\ \A i \in 1..Len(str) : str[i] \notin {" ", "@"}
emailRegexTest(email) ==
  \E i \in 1..Len(email) : \E j \in (i + 1)..Len(email) :
    /\ email[i] = "@"
    /\ email[j] = "."
    /\ NoBlankNoAt(SubSeq(email, 1, i - 1))
    /\ NoBlankNoAt(SubSeq(email, i + 1, j - 1))
    /\ NoBlankNoAt(SubSeq(email, j + 1, Len(email)))

\* generateRandomPassword(10): what Math.random may produce.
GeneratedPasswords == {"hT7!kQ2mZa"}

\* createUser: validation, then the username lookup.
CreateUser_findUsername(s) ==
  LET r == reqs[s] IN
  /\ r.pc = "createUser"
  /\ reqs' = [reqs EXCEPT ![s] =
       IF chars(r.body, "username") = <<>> \/ chars(r.body, "email") = <<>>
         THEN Answer(r, 400, "MISSING_FIELDS")
       ELSE IF ~emailRegexTest(chars(r.body, "email"))
         THEN Answer(r, 400, "INVALID_EMAIL")
       ELSE IF findUserByUsername(chars(r.body, "username")) # 0
         THEN Answer(r, 409, "DUPLICATE_USERNAME")
       ELSE [r EXCEPT !.pc = "createUser:findEmail"]]
  /\ UNCHANGED <<store, issued, started>>

\* createUser: the email lookup, then the password is generated.
CreateUser_findEmail(s) ==
  LET r == reqs[s] IN
  /\ r.pc = "createUser:findEmail"
  /\ \E generatedPassword \in GeneratedPasswords :
       reqs' = [reqs EXCEPT ![s] =
         IF \E u \in DOMAIN users : users[u].email = chars(r.body, "email")
           THEN Answer(r, 409, "DUPLICATE_EMAIL")
           ELSE [r EXCEPT !.generatedPassword = generatedPassword,
                          !.pc = "createUser:create"]]
  /\ UNCHANGED <<store, issued, started>>

\* createUser: `await prisma.user.create` (UNIQUE INDEX User_username_key
\* and email), then res.status(201) with the generated password.
CreateUser_create(s) ==
  LET r == reqs[s]
      username == chars(r.body, "username")
      user == [username |-> username,
               name |-> IF chars(r.body, "name") # <<>>
                          THEN chars(r.body, "name") ELSE username,
               email |-> chars(r.body, "email"),
               department |-> IF text(r.body, "department") # ""
                                THEN text(r.body, "department") ELSE "General",
               password |-> bcryptHash(r.generatedPassword),
               role |-> IF text(r.body, "role") # "" THEN text(r.body, "role")
                        ELSE "officer",
               status |-> "active"]
  IN
  /\ r.pc = "createUser:create"
  /\ IF \E u \in DOMAIN users :
          users[u].username = user.username \/ users[u].email = user.email
       THEN /\ reqs' = [reqs EXCEPT ![s] =
                 Answer(r, errorHandler(PrismaError("P2002")).status,
                        errorHandler(PrismaError("P2002")).code)]
            /\ UNCHANGED <<users, nextUserId>>
       ELSE /\ users' = users @@ (nextUserId :> user)
            /\ nextUserId' = nextUserId + 1
            /\ reqs' = [reqs EXCEPT ![s] =
                 Answer([r EXCEPT !.wrote = TRUE, !.found = nextUserId],
                        201, "")]
  /\ UNCHANGED <<cases, nextCaseRow, reports, nextReportRow, incidents,
                 nextIncidentRow, officers, activitylog, issued, started>>

\* ------------------------------------------------ createOfficer, update
\* createOfficer: validation (firstName, lastName, rank_ and unit are sent
\* as `profile`), `await prisma.officer.create` (UNIQUE INDEX badge, email).
CreateOfficer_create(s) ==
  LET r == reqs[s]
      badge == number(r.body, "badge")
      email == chars(r.body, "email")
  IN
  /\ r.pc = "createOfficer"
  /\ IF badge = 0 \/ text(r.body, "profile") = "" \/ email = <<>>
       THEN /\ reqs' = [reqs EXCEPT ![s] = Answer(r, 400, "MISSING_FIELDS")]
            /\ UNCHANGED officers
     ELSE IF ~emailRegexTest(email)
       THEN /\ reqs' = [reqs EXCEPT ![s] = Answer(r, 400, "INVALID_EMAIL")]
            /\ UNCHANGED officers
     ELSE IF \E o \in officers : o.badge = badge \/ o.email = email
       THEN /\ reqs' = [reqs EXCEPT ![s] =
                 Answer(r, errorHandler(PrismaError("P2002")).status,
                        errorHandler(PrismaError("P2002")).code)]
            /\ UNCHANGED officers
     ELSE /\ officers' = officers \cup
               {[badge |-> badge, email |-> email,
                 status |-> IF text(r.body, "status") # ""
                              THEN text(r.body, "status") ELSE "available"]}
          /\ reqs' = [reqs EXCEPT ![s] =
               Answer([r EXCEPT !.wrote = TRUE], 201, "")]
  /\ UNCHANGED <<users, nextUserId, cases, nextCaseRow, reports,
                 nextReportRow, incidents, nextIncidentRow, activitylog,
                 issued, started>>

\* updateOfficer: the email rule, `await prisma.officer.update({where:
\* {badge}, data})`.
UpdateOfficer_update(s) ==
  LET r == reqs[s]
      badge == r.id.num
      email == chars(r.body, "email")
  IN
  /\ r.pc = "updateOfficer"
  /\ IF email # <<>> /\ ~emailRegexTest(email)
       THEN /\ reqs' = [reqs EXCEPT ![s] = Answer(r, 400, "INVALID_EMAIL")]
            /\ UNCHANGED officers
     ELSE IF badge \notin {o.badge : o \in officers}
       THEN /\ reqs' = [reqs EXCEPT ![s] =
                 Answer(r, errorHandler(PrismaError("P2025")).status,
                        errorHandler(PrismaError("P2025")).code)]
            /\ UNCHANGED officers
     ELSE IF email # <<>> /\ \E o \in officers : o.badge # badge /\ o.email = email
       THEN /\ reqs' = [reqs EXCEPT ![s] =
                 Answer(r, errorHandler(PrismaError("P2002")).status,
                        errorHandler(PrismaError("P2002")).code)]
            /\ UNCHANGED officers
     ELSE /\ officers' =
               {IF o.badge = badge
                  THEN [o EXCEPT
                          !.status = IF text(r.body, "status") # ""
                                       THEN text(r.body, "status") ELSE @,
                          !.email = IF email # <<>> THEN email ELSE @]
                  ELSE o : o \in officers}
          /\ reqs' = [reqs EXCEPT ![s] =
               Answer([r EXCEPT !.wrote = TRUE], 200, "")]
  /\ UNCHANGED <<users, nextUserId, cases, nextCaseRow, reports,
                 nextReportRow, incidents, nextIncidentRow, activitylog,
                 issued, started>>

\* ----------------------------------------------------------------- reads
\* The handlers that only query the store (lists, get-by-id, the dashboard
\* views): the response is sent and nothing is written.
Read(s) ==
  LET r == reqs[s] IN
  /\ r.pc = "read"
  /\ reqs' = [reqs EXCEPT ![s] = Answer(r, 200, "")]
  /\ UNCHANGED <<store, issued, started>>

\* ------------------------------------------------------------------ Init
\* prisma/seed.js: the admin account and an officer account; the seeded
\* accounts hold the token of an earlier login.  No case, report or
\* incident has been filed yet.
AdminUser ==
  [username |-> <<"a", "d", "m", "i", "n">>,
   name |-> <<"S", "y", "s", "t", "e", "m", " ", "A", "d", "m", "i", "n">>,
   email |-> <<"a", "d", "m", "i", "n", "@", "n", "p", "f", "c", "r", "m",
               ".", "c", "o", "m">>,
   department |-> "HQ",
   password |-> bcryptHash("Admin123!"), role |-> "admin",
   status |-> "active"]
OfficerUser ==
  [username |-> <<"j", "d", "o", "e">>,
   name |-> <<"J", "o", "h", "n", " ", "D", "o", "e">>,
   email |-> <<"j", "d", "o", "e", "@", "n", "p", "f", ".", "c", "o", "m">>,
   department |-> "General",
   password |-> bcryptHash("Officer123!"), role |-> "officer",
   status |-> "active"]

Init ==
  /\ users = (1 :> AdminUser) @@ (2 :> OfficerUser)
  /\ nextUserId = 3
  /\ cases = {}
  /\ nextCaseRow = 1
  /\ reports = {}
  /\ nextReportRow = 1
  /\ incidents = {}
  /\ nextIncidentRow = 1
  /\ officers = {[badge |-> 100, status |-> "available",
                   email |-> OfficerUser.email]}
  /\ activitylog = <<>>
  /\ issued = {generateToken(1), generateToken(2)}
  /\ reqs = [s \in SlotIds |-> Idle]
  /\ started = 0

\* ---------------------------------------------------------------- inputs
Rq(route, hdr, id, body) ==
  [route |-> route, hdr |-> hdr, id |-> id, body |-> body]

\* The Authorization headers of clients that hold an issued token.
Sessions == {Bearer(t) : t \in issued}

\* POST /api/cases {type: "theft", location: "Wuse II"}
TheftBody == [type |-> "theft", location |-> "Wuse II"]

\* ------------------------------------------------- case id allocation
MaxCaseRows == 3

AllocRequests ==
  {Rq("POST /api/cases", h, NoParam, TheftBody) : h \in Sessions}
    \cup {Rq("DELETE /api/cases/:id", h, Num(n), EmptyBody) :
            h \in Sessions, n \in 1..MaxCaseRows}

NextAlloc ==
  \E s \in SlotIds :
    \/ Accept(s, AllocRequests)
    \/ CreateCase_generateCaseId(s)
    \/ CreateCase_create(s)
    \/ CreateCase_log(s)
    \/ DeleteCase_find(s)
    \/ DeleteCase_delete(s)
    \/ Finish(s)

SpecAlloc == Init /\ [][NextAlloc]_vars

\* String.prototype.padStart(n, '0') on a digit string.
RECURSIVE padStart(_, _)
padStart(ds, n) == IF Len(ds) >= n THEN ds ELSE padStart(<<0>> \o ds, n)

\* The row generateCaseId would read now: its id and its caseId.
LastRow == IF cases = {} THEN 0 ELSE Max(CaseRowIds)
LastCaseId == IF cases = {} THEN <<>> ELSE CaseRow(Max(CaseRowIds)).caseId

\* The slots whose createCase has computed its caseId.
Computed == {s \in SlotIds : reqs[s].caseId # <<>>}

\* C1: the id a createCase computes is 'CA-0001' when it read an empty
\* table, and otherwise the number of the last row's caseId plus one,
\* written with four digits (zero padded), so 'CA-0043' after 'CA-0042'.
C1_NextIdKeepsFourDigits ==
  \A s \in Computed :
    reqs[s].caseId =
      IF reqs[s].lastRow = 0 THEN <<0, 0, 0, 1>>
      ELSE padStart(NumberToString(parseInt(reqs[s].lastCaseId) + 1), 4)

\* C10: nothing serialises the read of the last row with the insert: while
\* one createCase holds an id it has computed and not yet inserted, another
\* createCase can do its read, and, the table being as the first one read
\* it, computes the same caseId.
C10_ReadNotSerialisedWithInsert ==
  \A s, t \in SlotIds :
    (/\ s # t
     /\ reqs[s].pc = "createCase:create"
     /\ reqs[t].pc = "createCase"
     /\ reqs[s].lastRow = LastRow /\ reqs[s].lastCaseId = LastCaseId)
    => /\ ENABLED CreateCase_generateCaseId(t)
       /\ generateCaseId = reqs[s].caseId

\* Two requests in flight, both about to insert, hold the same computed id.
C10_TwoInFlightHoldSameId ==
  \E s, t \in SlotIds :
    /\ s # t
    /\ reqs[s].pc = "createCase:create" /\ reqs[t].pc = "createCase:create"
    /\ reqs[s].caseId # <<>>
    /\ reqs[s].caseId = reqs[t].caseId


\* ------------------------------------------------- the protected routes
\* SpecGate serves its requests one after another, on one slot.
GateSlot == Min(SlotIds)

\* What a client may send as Authorization: nothing, another scheme, an
\* issued token, an issued token past its expiry, a token signed with
\* another key.
GateHeaders ==
  {NoHeader, Basic(generateToken(1)),
   Bearer([generateToken(2) EXCEPT !.expired = TRUE]),
   Bearer([generateToken(1) EXCEPT !.sig = "forged"])} \cup Sessions

\* PATCH /api/users/:id {status: "inactive"}
DeactivateBody == [status |-> "inactive"]

\* The :id (or :badge) and body sent with each route.
GateParams(route) ==
  IF route \in {"PATCH /api/users/:id", "DELETE /api/users/:id"}
    THEN {Num(1), Num(2)}
  ELSE IF route \in OfficerRoutes THEN {Num(100)}
  ELSE {Num(1)}

BobEmail == <<"b", "o", "b", "@", "n", "p", "f", ".", "c", "o", "m">>

GateBody(route) ==
  CASE route = "POST /api/cases" -> TheftBody
    [] route = "PATCH /api/cases/:id" -> [status |-> "resolved"]
    [] route = "POST /api/users" ->
         [username |-> <<"b", "o", "b">>, email |-> BobEmail]
    [] route = "PATCH /api/users/:id" -> DeactivateBody
    [] route = "POST /api/reports" -> [type |-> "monthly"]
    [] route = "POST /api/incidents" ->
         [type |-> "robbery", description |-> "armed", address |-> "Garki"]
    [] route = "PATCH /api/incidents/:id" -> [status |-> "resolved"]
    [] route = "POST /api/officers" ->
         [badge |-> 101, profile |-> "Sergeant, CID", email |-> BobEmail]
    [] route = "PATCH /api/officers/:badge" -> [status |-> "on_call"]
    [] OTHER -> EmptyBody

GateRequests ==
  UNION {{Rq(route, h, id, GateBody(route)) :
            h \in GateHeaders, id \in GateParams(route)} :
         route \in ProtectedRoutes}

NextGate ==
  \E s \in {GateSlot} :
    \/ Accept(s, GateRequests)
    \/ CreateCase_generateCaseId(s)
    \/ CreateCase_create(s)
    \/ CreateCase_log(s)
    \/ UpdateCase_find(s)
    \/ UpdateCase_update(s)
    \/ UpdateCase_log(s)
    \/ DeleteCase_find(s)
    \/ DeleteCase_delete(s)
    \/ \E q \in StatQueries : GetCaseStatistics_count(s, q)
    \/ \E q \in StatQueries : GetDashboardStatistics_count(s, q)
    \/ CreateUser_findUsername(s)
    \/ CreateUser_findEmail(s)
    \/ CreateUser_create(s)
    \/ UpdateUser_update(s)
    \/ DeleteUser_find(s)
    \/ DeleteUser_delete(s)
    \/ CreateReport_generateReportId(s)
    \/ CreateReport_create(s)
    \/ DeleteReport_find(s)
    \/ DeleteReport_delete(s)
    \/ DownloadReportPDF_find(s)
    \/ DownloadReportPDF_log(s)
    \/ CreateIncident_create(s)
    \/ UpdateIncident_update(s)
    \/ DeleteIncident_delete(s)
    \/ CreateOfficer_create(s)
    \/ UpdateOfficer_update(s)
    \/ DeleteOfficer_delete(s)
    \/ Read(s)
    \/ Finish(s)

SpecGate == Init /\ [][NextGate]_vars

\* The slots whose request changes in this step: the request that arrives,
\* or the request whose handler takes the step.
Stepping(s) == reqs'[s] # reqs[s] /\ reqs'[s].pc # "idle"

\* C2: a request to a protected route whose Authorization header is absent
\* or does not start with 'Bearer ' is answered 401 NO_TOKEN by the step
\* that receives it; its handler is never run and the step changes no
\* stored record.
C2_NoBearerIsAnswered401 ==
  [][\A s \in SlotIds :
       (/\ Stepping(s)
        /\ reqs'[s].route \in ProtectedRoutes
        /\ reqs'[s].hdr.scheme # "Bearer")
       => /\ reqs'[s].pc = "done"
          /\ reqs'[s].resp = Resp(401, "NO_TOKEN")
          /\ ~reqs'[s].ran
          /\ store' = store]_vars

\* A DELETE of an existing case that carries a token under another scheme
\* has been answered, and the case is still there.
C2_BasicSchemeRejected ==
  \E s \in SlotIds :
    /\ reqs[s].route = "DELETE /api/cases/:id"
    /\ reqs[s].hdr.scheme = "Basic"
    /\ jwtVerify(reqs[s].hdr.token).error = ""
    /\ reqs[s].pc = "done"
    /\ \E c \in cases : c.id = reqs[s].id.num

\* C3: a DELETE on a case, officer, report, incident or user by an
\* authenticated account whose role is not admin is answered 403 FORBIDDEN
\* by the step that receives it; the delete handler is never run and the
\* step changes no stored record, so the targeted record still exists.
C3_DeleteByNonAdminIs403 ==
  [][\A s \in SlotIds :
       (/\ Stepping(s)
        /\ reqs'[s].route \in
             {"DELETE /api/cases/:id", "DELETE /api/officers/:badge",
              "DELETE /api/reports/:id", "DELETE /api/incidents/:id",
              "DELETE /api/users/:id"}
        /\ reqs'[s].user.id # 0
        /\ reqs'[s].user.role # "admin")
       => /\ reqs'[s].pc = "done"
          /\ reqs'[s].resp = Resp(403, "FORBIDDEN")
          /\ ~reqs'[s].ran
          /\ store' = store]_vars

\* An officer's DELETE of an existing case has been answered, and the case
\* is still there.
C3_OfficerDeleteRejected ==
  \E s \in SlotIds :
    /\ reqs[s].route = "DELETE /api/cases/:id"
    /\ reqs[s].user.id # 0 /\ reqs[s].user.role = "officer"
    /\ reqs[s].pc = "done"
    /\ \E c \in cases : c.id = reqs[s].id.num

\* The request of slot s, after this step, is an authenticated account's
\* DELETE /api/users/:id of its own id.
SelfDelete(s) ==
  /\ Stepping(s)
  /\ reqs'[s].route = "DELETE /api/users/:id"
  /\ reqs'[s].user.id # 0
  /\ reqs'[s].id.num = reqs'[s].user.id

\* C4 as stated: a self-delete is answered 400 SELF_DELETE for every
\* authenticated account, whatever its role, and the account is not
\* removed.
C4_SelfDeleteRejectedWhateverRole ==
  [][\A s \in SlotIds :
       SelfDelete(s)
       => /\ reqs'[s].pc = "done" => reqs'[s].resp = Resp(400, "SELF_DELETE")
          /\ users' = users]_vars

\* C4 amended: a self-delete never removes the account; an admin's is
\* answered 400 SELF_DELETE by deleteUser, any other account's is answered
\* 403 FORBIDDEN by requireAdmin before deleteUser runs.
C4_SelfDeleteRejectedByRole ==
  [][\A s \in SlotIds :
       SelfDelete(s)
       => /\ reqs'[s].pc = "done" =>
               reqs'[s].resp = IF reqs'[s].user.role = "admin"
                                 THEN Resp(400, "SELF_DELETE")
                                 ELSE Resp(403, "FORBIDDEN")
          /\ reqs'[s].user.role # "admin" => ~reqs'[s].ran
          /\ users' = users]_vars

\* An admin's delete of its own account has been answered by deleteUser.
C4_AdminSelfDeleteAnswered ==
  \E s \in SlotIds :
    /\ reqs[s].route = "DELETE /api/users/:id"
    /\ reqs[s].user.role = "admin"
    /\ reqs[s].id.num = reqs[s].user.id
    /\ reqs[s].ran
    /\ reqs[s].pc = "done"
    /\ reqs[s].user.id \in DOMAIN users

\* C8: a request to a protected route with a valid token whose account is
\* no longer in the store when the token is verified is answered 401
\* USER_NOT_FOUND, and one whose account's status is not 'active' is
\* answered 401 INACTIVE_USER; in both cases the handler is not run.
C8_TokenCheckedAgainstStore ==
  \A s \in SlotIds :
    reqs[s].route \in ProtectedRoutes =>
      /\ reqs[s].acct = "absent" =>
           /\ reqs[s].pc = "done"
           /\ reqs[s].resp = Resp(401, "USER_NOT_FOUND")
           /\ ~reqs[s].ran
      /\ reqs[s].acct \notin {"", "absent", "active"} =>
           /\ reqs[s].pc = "done"
           /\ reqs[s].resp = Resp(401, "INACTIVE_USER")
           /\ ~reqs[s].ran

\* A request carrying an issued token has been answered after the token's
\* account was deleted.
C8_TokenOfDeletedAccount ==
  \E s \in SlotIds :
    /\ reqs[s].route \in ProtectedRoutes
    /\ reqs[s].hdr \in Sessions
    /\ reqs[s].hdr.token.userId \notin DOMAIN users
    /\ reqs[s].acct = "absent"
    /\ reqs[s].pc = "done"

\* C9: the handler of a protected route runs only for a request to which
\* authenticate attached an account that was in the store and active when
\* the token was verified; the admin-only handlers (every delete, officer
\* create and update, user list and create) run only when that account's
\* role is admin.
C9_HandlersRunBehindTheGates ==
  \A s \in SlotIds :
    (reqs[s].ran /\ reqs[s].route \in ProtectedRoutes) =>
      /\ reqs[s].user.id # 0
      /\ reqs[s].user.id = jwtVerify(reqs[s].hdr.token).userId
      /\ reqs[s].user.status = "active"
      /\ reqs[s].acct = "active"
      /\ reqs[s].route \in
           {"DELETE /api/cases/:id", "DELETE /api/officers/:badge",
            "DELETE /api/reports/:id", "DELETE /api/incidents/:id",
            "DELETE /api/users/:id", "POST /api/officers",
            "PATCH /api/officers/:badge", "GET /api/users",
            "POST /api/users"}
           => reqs[s].user.role = "admin"

\* An admin-only handler has run and written the store.
C9_AdminHandlerRan ==
  \E s \in SlotIds :
    /\ reqs[s].route = "POST /api/officers"
    /\ reqs[s].ran /\ reqs[s].wrote
    /\ reqs[s].user.role = "admin"


\* ------------------------------------------------------------ the login
\* The username of the account an admin creates: as typed, with a leading
\* blank, or without.
Kay == <<"k">>
BlankKay == <<" ", "k">>
KayEmail == <<"k", "@", "n", ".", "g">>

LoginUsernames ==
  {<<>>, OfficerUser.username, <<" ">> \o OfficerUser.username, Kay, BlankKay}
LoginPasswords == {"", "Officer123!"} \cup GeneratedPasswords

LoginRequests ==
  {Rq("POST /api/auth/login", NoHeader, NoParam,
      [username |-> u, password |-> pw]) :
     u \in LoginUsernames, pw \in LoginPasswords}
    \cup {Rq("POST /api/users", h, NoParam,
              [username |-> u, email |-> KayEmail]) :
            h \in Sessions, u \in {Kay, BlankKay}}
    \cup {Rq("PATCH /api/users/:id", h, Num(2), DeactivateBody) :
            h \in Sessions}
    \cup {Rq("GET /api/cases", h, NoParam, EmptyBody) : h \in Sessions}

NextLogin ==
  \E s \in SlotIds :
    \/ Accept(s, LoginRequests)
    \/ Login_find(s)
    \/ Login_log(s)
    \/ CreateUser_findUsername(s)
    \/ CreateUser_findEmail(s)
    \/ CreateUser_create(s)
    \/ UpdateUser_update(s)
    \/ Read(s)
    \/ Finish(s)

SpecLogin == Init /\ [][NextLogin]_vars

\* C6: a login with the username and the password of an existing active
\* account is answered 200 with a token, and the token resolves, as
\* authenticate verifies it, to that account's id.
C6_LoginOfActiveAccountIssuesToken ==
  \A s \in SlotIds :
    (/\ reqs[s].route = "POST /api/auth/login"
     /\ reqs[s].pc = "done"
     /\ reqs[s].subject # 0)
    => /\ reqs[s].resp.status = 200
       /\ reqs[s].token # NoToken
       /\ jwtVerify(reqs[s].token).userId = reqs[s].subject

\* The failed logins: the username, as login looks it up, names no account,
\* or the password is not the account's, or the account is not active.
FailedLogin(r) ==
  /\ r.route = "POST /api/auth/login"
  /\ r.acct \notin {"", "active"}

\* C7 as stated: a failed login is answered 401, issues no token and
\* writes no 'login' activity entry.
C7_FailedLoginIs401 ==
  [][\A s \in SlotIds :
       (Stepping(s) /\ FailedLogin(reqs'[s]))
       => /\ reqs'[s].pc = "done"
          /\ reqs'[s].resp.status = 401
          /\ reqs'[s].token = NoToken
          /\ issued' = issued
          /\ activitylog' = activitylog]_vars

\* C7 amended: a failed login issues no token and writes no 'login'
\* activity entry; it is answered 400 MISSING_CREDENTIALS when the username
\* or the password is empty, and 401 otherwise.
C7_FailedLoginIs401Or400 ==
  [][\A s \in SlotIds :
       (Stepping(s) /\ FailedLogin(reqs'[s]))
       => /\ reqs'[s].pc = "done"
          /\ reqs'[s].resp =
               IF \/ chars(reqs'[s].body, "username") = <<>>
                  \/ text(reqs'[s].body, "password") = ""
                 THEN Resp(400, "MISSING_CREDENTIALS")
               ELSE IF reqs'[s].acct \in {"unknown", "wrong-password"}
                 THEN Resp(401, "INVALID_CREDENTIALS")
               ELSE Resp(401, "INACTIVE_USER")
          /\ reqs'[s].token = NoToken
          /\ issued' = issued
          /\ activitylog' = activitylog]_vars

\* A login with the right password of a deactivated account was answered.
C7_InactiveLoginAnswered ==
  \E s \in SlotIds :
    /\ reqs[s].route = "POST /api/auth/login"
    /\ reqs[s].pc = "done"
    /\ reqs[s].acct = "inactive"
    /\ reqs[s].resp.status = 401


\* ------------------------------------------------------- the statistics
\* POST /api/cases {type, location, status: "closed"}
ClosedBody == [type |-> "fraud", location |-> "Garki", status |-> "closed"]

StatsRequests ==
  {Rq(route, h, NoParam, EmptyBody) :
     route \in {"GET /api/cases/statistics", "GET /api/dashboard/statistics"},
     h \in Sessions}
    \cup {Rq("POST /api/cases", h, NoParam, b) :
            h \in Sessions, b \in {TheftBody, ClosedBody}}
    \cup {Rq("PATCH /api/cases/:id", h, Num(1), [status |-> "resolved"]) :
            h \in Sessions}
    \cup {Rq("DELETE /api/cases/:id", h, Num(1), EmptyBody) : h \in Sessions}

NextStats ==
  \E s \in SlotIds :
    \/ Accept(s, StatsRequests)
    \/ \E q \in StatQueries : GetCaseStatistics_count(s, q)
    \/ \E q \in StatQueries : GetDashboardStatistics_count(s, q)
    \/ CreateCase_generateCaseId(s)
    \/ CreateCase_create(s)
    \/ CreateCase_log(s)
    \/ UpdateCase_find(s)
    \/ UpdateCase_update(s)
    \/ UpdateCase_log(s)
    \/ DeleteCase_find(s)
    \/ DeleteCase_delete(s)
    \/ Finish(s)

SpecStats == Init /\ [][NextStats]_vars

\* C5: in every response of the two statistics endpoints the counts of the
\* three statuses and the cases of any other status add up to the total,
\* so the three counts together never exceed it, whatever other requests
\* write between the count queries.
C5_StatusCountsAddUpToTotal ==
  \A s \in SlotIds :
    (/\ reqs[s].route \in
          {"GET /api/cases/statistics", "GET /api/dashboard/statistics"}
     /\ reqs[s].pc = "done"
     /\ reqs[s].resp.status = 200)
    => reqs[s].counts["total"] >=
         reqs[s].counts["open"] + reqs[s].counts["investigation"]
           + reqs[s].counts["resolved"]


\* ------------------------------------------- serialised case allocation
\* Case creates and deletes that never overlap: one request at a time.
MaxSerialRequests == 4

AcceptSerial(s) ==
  /\ reqs[s].pc = "idle"
  /\ started < MaxSerialRequests
  /\ \E rq \in AllocRequests : Route(s, rq)

NextSerial ==
  \E s \in {GateSlot} :
    \/ AcceptSerial(s)
    \/ CreateCase_generateCaseId(s)
    \/ CreateCase_create(s)
    \/ CreateCase_log(s)
    \/ DeleteCase_find(s)
    \/ DeleteCase_delete(s)
    \/ Finish(s)

SpecSerial == Init /\ [][NextSerial]_vars

\* The numeric suffixes of the stored cases.
Suffixes == {parseInt(c.caseId) : c \in cases}

\* The caseIds the 'create_case' entries of the activity log record, in
\* the order the cases were created.
CreatedAt(i) ==
  /\ i \in DOMAIN activitylog
  /\ activitylog[i].action = "create_case"

\* C11: when creates and deletes of cases do not overlap, the numeric
\* suffix of each newly created case is strictly greater than the suffix of
\* every case created before it, deleted since or not.
C11_SerialisedSuffixesIncrease ==
  \A i, j \in DOMAIN activitylog :
    (i < j /\ CreatedAt(i) /\ CreatedAt(j))
    => parseInt(activitylog[i].metadata) < parseInt(activitylog[j].metadata)

\* C12: when creates and deletes of cases do not overlap, starting from an
\* empty table, the row with the highest id carries the greatest numeric
\* suffix of the table, and the id a createCase has computed is that suffix
\* plus one and is the caseId of no stored case.
C12_LastRowCarriesMaxSuffix ==
  /\ cases # {} => parseInt(LastCaseId) = Max(Suffixes)
  /\ \A s \in SlotIds :
       reqs[s].pc = "createCase:create" =>
         /\ parseInt(reqs[s].caseId) =
              IF cases = {} THEN 1 ELSE Max(Suffixes) + 1
         /\ \A c \in cases : c.caseId # reqs[s].caseId

\* A createCase has computed its id from a table that holds a case and has
\* lost one to a delete.
C12_CreateAfterDelete ==
  \E s \in SlotIds :
    /\ reqs[s].pc = "createCase:create"
    /\ cases # {}
    /\ Cardinality(cases) < nextCaseRow - 1


\* C13: when a createCase comes to insert an id that a stored case already
\* carries (an overlapping createCase computed the same id and inserted it
\* first), the insert is refused: the request is answered 409
\* DUPLICATE_ENTRY without a retry, the step stores nothing (no case row,
\* no 'create_case' entry), and exactly one case carries that caseId.
C13_DuplicateIdIsAnswered409 ==
  [][\A s \in SlotIds :
       (/\ reqs[s].pc = "createCase:create"
        /\ reqs'[s] # reqs[s]
        /\ \E c \in cases : c.caseId = reqs[s].caseId)
       => /\ reqs'[s].pc = "done"
          /\ reqs'[s].resp = Resp(409, "DUPLICATE_ENTRY")
          /\ ~reqs'[s].wrote
          /\ store' = store
          /\ Cardinality({c \in cases' : c.caseId = reqs[s].caseId}) = 1]_vars

\* Of two createCase requests that read the same last row, one has stored
\* its case and the other has been answered.
C13_SecondInsertRefused ==
  \E s, t \in SlotIds :
    /\ s # t
    /\ reqs[s].route = "POST /api/cases" /\ reqs[t].route = "POST /api/cases"
    /\ reqs[s].caseId # <<>> /\ reqs[s].caseId = reqs[t].caseId
    /\ reqs[s].lastRow = reqs[t].lastRow
    /\ reqs[s].wrote
    /\ reqs[t].pc = "done" /\ reqs[t].resp.status = 409


\* C14: a POST /api/cases by an authenticated account that is not an admin,
\* with only type and location in the body, served with no other request
\* overlapping it, is answered 201 and has stored a case with status
\* 'open', priority 'medium', no assigned officer and createdById the
\* requesting account's id.
C14_CreateCaseDefaults ==
  \A s \in SlotIds :
    (/\ reqs[s].route = "POST /api/cases"
     /\ reqs[s].pc = "done"
     /\ reqs[s].user.id # 0 /\ reqs[s].user.role # "admin"
     /\ DOMAIN reqs[s].body = {"type", "location"}
     /\ reqs[s].body.type # "" /\ reqs[s].body.location # "")
    => /\ reqs[s].resp = Resp(201, "")
       /\ \E c \in cases :
            /\ c.id = reqs[s].found
            /\ c.caseId = reqs[s].caseId
            /\ c.type = reqs[s].body.type
            /\ c.location = reqs[s].body.location
            /\ c.status = "open"
            /\ c.priority = "medium"
            /\ c.officerId = 0
            /\ c.createdById = reqs[s].user.id

\* An officer's POST /api/cases {type, location} has been answered.
C14_OfficerCreatedCase ==
  \E s \in SlotIds :
    /\ reqs[s].route = "POST /api/cases"
    /\ reqs[s].pc = "done"
    /\ reqs[s].user.role = "officer"
    /\ reqs[s].body = TheftBody
    /\ reqs[s].wrote


\* C15: every stored case has a status among open, investigation and
\* resolved, and a priority among low, medium and high, whatever createCase
\* and updateCase requests supply.
C15_StatusAndPriorityDomains ==
  \A c \in cases :
    /\ c.status \in {"open", "investigation", "resolved"}
    /\ c.priority \in {"low", "medium", "high"}


\* The routes that create a case, officer, report, incident or user.
CreateRoutes ==
  {"POST /api/cases", "POST /api/officers", "POST /api/reports",
   "POST /api/incidents", "POST /api/users"}

\* C16: a create of a case, officer, report, incident or user that is
\* answered 201 has appended exactly one activity entry, which records
\* the acting account.  (Requests are served one at a time: the entries
\* written since the request arrived are its own.)
C16_CreateAppendsOneEntry ==
  \A s \in SlotIds :
    (/\ reqs[s].route \in CreateRoutes
     /\ reqs[s].pc = "done"
     /\ reqs[s].resp.status = 201)
    => /\ Len(activitylog) = reqs[s].logAt + 1
       /\ activitylog[Len(activitylog)].userId = reqs[s].user.id


\* C17 as stated: no step removes an entry of the activity log or changes
\* one: the log only grows and each entry stays as written, also when the
\* account that acted is deleted.
C17_EntriesStayAsWritten ==
  [][/\ Len(activitylog') >= Len(activitylog)
     /\ \A i \in DOMAIN activitylog : activitylog'[i] = activitylog[i]]_vars

\* C17 amended: no step removes an entry of the activity log or changes
\* its action or metadata; an entry's acting account changes only by being
\* set to null when that account is deleted.
C17_EntriesKeptActorNulledOnDelete ==
  [][/\ Len(activitylog') >= Len(activitylog)
     /\ \A i \in DOMAIN activitylog :
          /\ activitylog'[i].action = activitylog[i].action
          /\ activitylog'[i].metadata = activitylog[i].metadata
          /\ \/ activitylog'[i].userId = activitylog[i].userId
             \/ /\ activitylog'[i].userId = 0
                /\ activitylog[i].userId \in DOMAIN users
                /\ activitylog[i].userId \notin DOMAIN users']_vars

\* The log holds an entry whose acting account has been deleted.
C17_ActorDeleted ==
  \E i \in DOMAIN activitylog :
    /\ activitylog[i].userId = 0
    /\ 2 \notin DOMAIN users


\* The record a delete request names is in the store.
Targeted(r) ==
  CASE r.route = "DELETE /api/cases/:id" -> findCase(r.id) # 0
    [] r.route = "DELETE /api/reports/:id" -> findReport(r.id) # 0
    [] r.route = "DELETE /api/users/:id" -> r.id.num \in DOMAIN users
    [] r.route = "DELETE /api/incidents/:id" ->
         \E x \in incidents : x.id = r.id.num
    [] r.route = "DELETE /api/officers/:badge" ->
         \E o \in officers : o.badge = r.id.num
    [] OTHER -> FALSE

ErrorCodes == {"", "P2002", "P2025", "P2003"}
ErrorNames == {"Error", "ValidationError", "PrismaClientKnownRequestError"}
StatusCodes == {0, 400, 413}
Errors ==
  [code : ErrorCodes, name : ErrorNames, statusCode : StatusCodes]

\* catch (error) { next(error) }: a store call of the handler rejects and
\* errorHandler answers the request.
Handler_catch(s) ==
  /\ reqs[s].pc \notin {"idle", "done"}
  /\ \E err \in Errors :
       reqs' = [reqs EXCEPT ![s] =
                  [Answer(reqs[s], errorHandler(err).status,
                          errorHandler(err).code) EXCEPT !.err = err]]
  /\ UNCHANGED <<store, issued, started>>

NextErrors ==
  \E s \in {GateSlot} :
    \/ Accept(s, AllocRequests)
    \/ Handler_catch(s)
    \/ Finish(s)

SpecErrors == Init /\ [][NextErrors]_vars

\* The requests errorHandler has answered.
Caught == {s \in SlotIds : reqs[s].pc = "done" /\ reqs[s].err # NoError}

\* C19 (as stated): errorHandler answers a unique-constraint conflict
\* (P2002) with 409 DUPLICATE_ENTRY, a record-not-found signal (P2025) with
\* 404, and every other error with 500.
C19_EveryOtherErrorIs500 ==
  \A s \in Caught :
    LET err == reqs[s].err
        resp == reqs[s].resp IN
      /\ err.code = "P2002" => resp = Resp(409, "DUPLICATE_ENTRY")
      /\ err.code = "P2025" => resp.status = 404
      /\ err.code \notin {"P2002", "P2025"} => resp.status = 500

\* C19 (amended): errorHandler answers P2002 with 409 DUPLICATE_ENTRY and
\* P2025 with 404 NOT_FOUND; any other error named ValidationError with 400
\* VALIDATION_ERROR; and every remaining error with the error's own
\* statusCode when it has one, 500 otherwise, under the error's own code
\* when it has one, INTERNAL_ERROR otherwise.
C19_OtherErrorsKeepTheirStatusCode ==
  \A s \in Caught :
    LET err == reqs[s].err
        resp == reqs[s].resp IN
      /\ err.code = "P2002" => resp = Resp(409, "DUPLICATE_ENTRY")
      /\ err.code = "P2025" => resp = Resp(404, "NOT_FOUND")
      /\ err.code \notin {"P2002", "P2025"} =>
           /\ err.name = "ValidationError" =>
                resp = Resp(400, "VALIDATION_ERROR")
           /\ err.name # "ValidationError" =>
                /\ err.statusCode # 0 => resp.status = err.statusCode
                /\ err.statusCode = 0 => resp.status = 500
                /\ err.code # "" => resp.code = err.code
                /\ err.code = "" => resp.code = "INTERNAL_ERROR"

\* errorHandler has answered an error that carries its own statusCode.
C19_StatusCodeErrorAnswered ==
  \E s \in Caught :
    /\ reqs[s].err.code = ""
    /\ reqs[s].err.name = "Error"
    /\ reqs[s].err.statusCode = 413
    /\ reqs[s].resp = Resp(413, "INTERNAL_ERROR")


\* ------------------------------------------------------ username index
\* POST /api/auth/register {username, password}
RegisterUsernames == {<<>>, Kay, OfficerUser.username}
RegisterPasswords == {"", "abc", "Secret1"}

RegisterRequests ==
  {Rq("POST /api/auth/register", NoHeader, NoParam,
      [username |-> u, password |-> pw]) :
     u \in RegisterUsernames, pw \in RegisterPasswords}
    \cup {Rq("POST /api/users", h, NoParam,
              [username |-> u, email |-> KayEmail]) :
            h \in Sessions, u \in {Kay, OfficerUser.username}}

NextRegister ==
  \E s \in SlotIds :
    \/ Accept(s, RegisterRequests)
    \/ Register_find(s)
    \/ Register_create(s)
    \/ Register_log(s)
    \/ CreateUser_findUsername(s)
    \/ CreateUser_findEmail(s)
    \/ CreateUser_create(s)
    \/ Finish(s)

SpecRegister == Init /\ [][NextRegister]_vars

\* The request in slot s is about to insert an account.
Inserting(s) == reqs[s].pc \in {"register:create", "createUser:create"}

\* C20: no two accounts share a username, whether or not register and
\* createUser requests with the same username overlap; and an insert of an
\* account whose username is already stored is answered with an error and
\* leaves the accounts as they were.
C20_UsernamesAreUnique ==
  /\ [](\A u, v \in DOMAIN users :
          users[u].username = users[v].username => u = v)
  /\ [][\A s \in SlotIds :
          (/\ Inserting(s)
           /\ reqs'[s] # reqs[s]
           /\ findUserByUsername(chars(reqs[s].body, "username")) # 0)
          => /\ users' = users
             /\ reqs'[s].pc = "done"
             /\ reqs'[s].resp.status = 409]_vars

\* A register and a createUser with the same username were both past their
\* lookups when one of them inserted, and the other has been refused.
C20_OverlappingCreateRefused ==
  \E s, t \in SlotIds :
    /\ reqs[s].route = "POST /api/auth/register"
    /\ reqs[t].route = "POST /api/users"
    /\ chars(reqs[s].body, "username") = chars(reqs[t].body, "username")
    /\ \/ reqs[s].wrote /\ reqs[t].resp = Resp(409, "DUPLICATE_ENTRY")
       \/ reqs[t].wrote /\ reqs[s].resp = Resp(409, "DUPLICATE_ENTRY")


\* ------------------------------------------------------------ case merge
\* POST /api/cases {type, location, officer: "jdoe"}
AssignedBody ==
  [type |-> "theft", location |-> "Wuse II", officer |-> OfficerUser.username]

\* PATCH /api/cases/:id bodies: one field, an empty field, an officer that
\* resolves, one that does not, and an empty officer.
Nobody == <<"n", "o", "b", "o", "d", "y">>
UpdateBodies ==
  {[status |-> "resolved"],
   [type |-> "", priority |-> "high"],
   [location |-> "Garki", officer |-> AdminUser.username],
   [officer |-> Nobody],
   [officer |-> <<>>]}

UpdateRequests ==
  {Rq("POST /api/cases", h, NoParam, AssignedBody) : h \in Sessions}
    \cup {Rq("PATCH /api/cases/:id", h, Num(n), b) :
            h \in Sessions, n \in 1..2, b \in UpdateBodies}

NextUpdate ==
  \E s \in {GateSlot} :
    \/ Accept(s, UpdateRequests)
    \/ CreateCase_generateCaseId(s)
    \/ CreateCase_findOfficer(s)
    \/ CreateCase_create(s)
    \/ CreateCase_log(s)
    \/ UpdateCase_find(s)
    \/ UpdateCase_findOfficer(s)
    \/ UpdateCase_update(s)
    \/ UpdateCase_log(s)
    \/ Finish(s)

SpecUpdate == Init /\ [][NextUpdate]_vars

\* The fields of a case an updateCase body can name.
MergedFields == {"type", "priority", "location", "status"}

\* C21: a step of updateCase's update changes, in the target case, only
\* type, priority, location and status, each only when the body carries it,
\* and the assignment; caseId, createdById and the row id stay, and so does
\* every other case.  An officer name that resolved to no account leaves
\* officerId as it was; an empty officer sets it to none; a body without
\* officer leaves it as it was.
C21_UpdateCaseMergesBodyFields ==
  [][\A s \in SlotIds :
       (reqs[s].pc = "updateCase:update" /\ reqs'[s] # reqs[s])
       => LET r == reqs[s]
              others == {c \in cases : c.id # r.found}
          IN /\ others \subseteq cases'
             /\ {c.id : c \in cases'} = {c.id : c \in cases}
             /\ \A c \in cases : c.id = r.found =>
                  \E d \in cases' :
                    /\ d.id = c.id
                    /\ d.caseId = c.caseId
                    /\ d.createdById = c.createdById
                    /\ \A f \in MergedFields :
                         f \notin DOMAIN r.body => d[f] = c[f]
                    /\ "officer" \notin DOMAIN r.body =>
                         d.officerId = c.officerId
                    /\ ("officer" \in DOMAIN r.body
                          /\ r.body.officer # <<>> /\ r.officerId = 0) =>
                         d.officerId = c.officerId
                    /\ ("officer" \in DOMAIN r.body
                          /\ r.body.officer = <<>> /\ reqs'[s].wrote) =>
                         d.officerId = 0]_vars

\* An update naming an officer that no account matches has been applied to
\* an assigned case, and the case is still assigned.
C21_UnresolvedOfficerKept ==
  \E s \in SlotIds :
    /\ reqs[s].route = "PATCH /api/cases/:id"
    /\ reqs[s].body = [officer |-> Nobody]
    /\ reqs[s].wrote
    /\ \E c \in cases : c.id = reqs[s].found /\ c.officerId # 0


\* ------------------------------------------------------ user management
\* PATCH /api/users/:id bodies: a promotion, a short password sent with
\* other fields, a new password, and an empty password.
PromoteBody == [role |-> "admin", status |-> "inactive", name |-> <<"x">>]
WeakPasswordBody ==
  [password |-> "abc", email |-> KayEmail, name |-> <<"x">>,
   department |-> "HQ", role |-> "admin", status |-> "inactive"]
NewPasswordBody == [password |-> "Secret1"]
EmptyPasswordBody == [password |-> "", department |-> "HQ"]
UserBodies ==
  {PromoteBody, WeakPasswordBody, NewPasswordBody, EmptyPasswordBody}

UsersRequests ==
  {Rq("PATCH /api/users/:id", h, Num(n), b) :
     h \in Sessions, n \in 1..2, b \in UserBodies}
    \cup {Rq("DELETE /api/users/:id", h, Num(n), EmptyBody) :
            h \in Sessions, n \in 1..2}
    \cup {Rq("POST /api/users", h, NoParam,
              [username |-> Kay, email |-> KayEmail, role |-> "admin"]) :
            h \in Sessions}

NextUsers ==
  \E s \in SlotIds :
    \/ Accept(s, UsersRequests)
    \/ CreateUser_findUsername(s)
    \/ CreateUser_findEmail(s)
    \/ CreateUser_create(s)
    \/ UpdateUser_update(s)
    \/ DeleteUser_find(s)
    \/ DeleteUser_delete(s)
    \/ Finish(s)

SpecUsers == Init /\ [][NextUsers]_vars

\* C22: an updateUser request whose requester authenticate found to be no
\* admin is answered 403 FORBIDDEN and changes no account when it targets
\* another account; when it targets the requester's own account it leaves
\* that account's role and status as they were, whatever the body holds.
C22_OnlyAdminChangesRoleAndStatus ==
  [][\A s \in SlotIds :
       (/\ reqs[s].pc = "updateUser"
        /\ reqs'[s] # reqs[s]
        /\ reqs[s].user.role # "admin")
       => IF reqs[s].id.num # reqs[s].user.id
            THEN /\ reqs'[s].resp = Resp(403, "FORBIDDEN")
                 /\ users' = users
            ELSE \A u \in DOMAIN users :
                   /\ u \in DOMAIN users'
                   /\ users'[u].role = users[u].role
                   /\ users'[u].status = users[u].status]_vars

\* An officer's update of the own account, asking for the admin role, was
\* applied, and the account is still an officer.
C22_OfficerSelfPromotionIgnored ==
  \E s \in SlotIds :
    /\ reqs[s].route = "PATCH /api/users/:id"
    /\ reqs[s].user.role = "officer"
    /\ reqs[s].id.num = reqs[s].user.id
    /\ reqs[s].body = PromoteBody
    /\ reqs[s].wrote
    /\ reqs[s].resp.status = 200
    /\ reqs[s].user.id \in DOMAIN users
    /\ users[reqs[s].user.id].role = "officer"

\* The updateUser request in slot s carries a password under 6 characters.
ShortPassword(s) ==
  /\ reqs[s].pc = "updateUser"
  /\ "password" \in DOMAIN reqs[s].body
  /\ Len(reqs[s].body.password) < 6

\* authenticate found the requester of slot s to be an admin or the target.
MayUpdate(s) ==
  reqs[s].user.role = "admin" \/ reqs[s].user.id = reqs[s].id.num

\* C23 (as stated): an updateUser request whose password is shorter than 6
\* characters is answered 400 WEAK_PASSWORD and changes no account.
C23_ShortPasswordIs400 ==
  [][\A s \in SlotIds :
       (ShortPassword(s) /\ reqs'[s] # reqs[s])
       => /\ reqs'[s].resp = Resp(400, "WEAK_PASSWORD")
          /\ users' = users]_vars

\* C23 (amended): an updateUser request of an admin, or for the
\* requester's own account, whose password is not empty and shorter than 6
\* characters is answered 400 WEAK_PASSWORD; from any other requester it is
\* answered 403 FORBIDDEN; in both cases no account changes.  An empty
\* password counts as no password: the other fields are applied.
C23_ShortPasswordOfPermittedIs400 ==
  [][\A s \in SlotIds :
       (ShortPassword(s) /\ reqs'[s] # reqs[s])
       => IF ~MayUpdate(s)
            THEN /\ reqs'[s].resp = Resp(403, "FORBIDDEN")
                 /\ users' = users
          ELSE IF reqs[s].body.password # ""
            THEN /\ reqs'[s].resp = Resp(400, "WEAK_PASSWORD")
                 /\ users' = users
          ELSE reqs'[s].resp.status = 200 =>
                 users'[reqs[s].id.num].department =
                   reqs[s].body.department]_vars

\* An admin's update of another account with a 3-character password was
\* answered 400 WEAK_PASSWORD.
C23_WeakPasswordRefused ==
  \E s \in SlotIds :
    /\ reqs[s].route = "PATCH /api/users/:id"
    /\ reqs[s].user.role = "admin"
    /\ reqs[s].body = WeakPasswordBody
    /\ reqs[s].pc = "done"
    /\ reqs[s].resp = Resp(400, "WEAK_PASSWORD")


\* ------------------------------------------------- overlapping deletes
\* The request in slot s is a deleteCase that found its case.
Deleting(s) ==
  reqs[s].route = "DELETE /api/cases/:id" /\ reqs[s].found # 0

\* C24: of two deleteCase requests that found the same case, at most one
\* reports success; the delete step of a request whose case is still stored
\* removes that case and no other and answers 200, and the delete step of a
\* request whose case is already gone answers 404 and leaves every case.
C24_OverlappingDeletesRemoveOnce ==
  /\ [](\A s, t \in SlotIds :
          (s # t /\ Deleting(s) /\ Deleting(t)
             /\ reqs[s].found = reqs[t].found)
          => ~(reqs[s].resp.status = 200 /\ reqs[t].resp.status = 200))
  /\ [][\A s \in SlotIds :
          (reqs[s].pc = "deleteCase:delete" /\ reqs'[s] # reqs[s])
          => IF reqs[s].found \in CaseRowIds
               THEN /\ cases' = cases \ {CaseRow(reqs[s].found)}
                    /\ reqs'[s].resp.status = 200
               ELSE /\ cases' = cases
                    /\ reqs'[s].resp = Resp(404, "NOT_FOUND")]_vars

\* Two deleteCase requests found the same case; one removed it and the
\* other was answered 404.
C24_SecondDeleteAnswered404 ==
  \E s, t \in SlotIds :
    /\ s # t /\ Deleting(s) /\ Deleting(t)
    /\ reqs[s].found = reqs[t].found
    /\ reqs[s].wrote /\ reqs[s].resp.status = 200
    /\ reqs[t].resp = Resp(404, "NOT_FOUND")


\* ------------------------------------------------------- case requests
\* Case creates, updates and deletes, overlapping.
CaseRequests ==
  {Rq("POST /api/cases", h, NoParam, TheftBody) : h \in Sessions}
    \cup {Rq("PATCH /api/cases/:id", h, Num(1), [status |-> "resolved"]) :
            h \in Sessions}
    \cup {Rq("DELETE /api/cases/:id", h, Num(n), EmptyBody) :
            h \in Sessions, n \in 1..2}

NextCases ==
  \E s \in SlotIds :
    \/ Accept(s, CaseRequests)
    \/ CreateCase_generateCaseId(s)
    \/ CreateCase_create(s)
    \/ CreateCase_log(s)
    \/ UpdateCase_find(s)
    \/ UpdateCase_update(s)
    \/ UpdateCase_log(s)
    \/ DeleteCase_find(s)
    \/ DeleteCase_delete(s)
    \/ Finish(s)

SpecCases == Init /\ [][NextCases]_vars

\* C25: no two stored cases have the same caseId.
C25_CaseIdsAreUnique ==
  \A c, d \in cases : c.caseId = d.caseId => c = d

\* Two cases are stored, and a create that computed an id already taken has
\* been refused.
C25_TwoCasesAfterCollision ==
  /\ Cardinality(cases) >= 2
  /\ \E s \in SlotIds :
       /\ reqs[s].route = "POST /api/cases"
       /\ reqs[s].resp = Resp(409, "DUPLICATE_ENTRY")


\* ---------------------------------------------------- allocator progress
\* Case creates and deletes, overlapping, four requests in all.
NextAllocFour ==
  \E s \in SlotIds :
    \/ AcceptSerial(s)
    \/ CreateCase_generateCaseId(s)
    \/ CreateCase_create(s)
    \/ CreateCase_log(s)
    \/ DeleteCase_find(s)
    \/ DeleteCase_delete(s)
    \/ Finish(s)

SpecAllocFour == Init /\ [][NextAllocFour]_vars

\* No request is in flight.
Quiescent == \A s \in SlotIds : reqs[s].pc \in {"idle", "done"}

\* C26: once every createCase and deleteCase request has completed, the id
\* a createCase running alone would compute is the caseId of no stored
\* case, so that its insert succeeds: the row with the highest id never has
\* a suffix one less than the suffix of another stored case.
C26_AllocatorNeverStuck ==
  Quiescent => \A c \in cases : c.caseId # generateCaseId


\* -------------------------------------------------------------- ownership
\* Case and report creates overlapping with account deletes.
OwnershipRequests ==
  {Rq("POST /api/cases", h, NoParam, AssignedBody) : h \in Sessions}
    \cup {Rq("POST /api/reports", h, NoParam, [type |-> "monthly"]) :
            h \in Sessions}
    \cup {Rq("DELETE /api/users/:id", h, Num(2), EmptyBody) : h \in Sessions}

NextOwnership ==
  \E s \in SlotIds :
    \/ Accept(s, OwnershipRequests)
    \/ CreateCase_generateCaseId(s)
    \/ CreateCase_findOfficer(s)
    \/ CreateCase_create(s)
    \/ CreateCase_log(s)
    \/ CreateReport_generateReportId(s)
    \/ CreateReport_create(s)
    \/ DeleteUser_find(s)
    \/ DeleteUser_delete(s)
    \/ Finish(s)

SpecOwnership == Init /\ [][NextOwnership]_vars

\* The account created a case or generated a report.
Owns(userId) ==
  \/ \E c \in cases : c.createdById = userId
  \/ \E x \in reports : x.generatedById = userId

\* C27: every stored case's createdById and every report's generatedById
\* is the id of a stored account.  The delete step of deleteUser for an
\* account that created a case or generated a report is answered with an
\* error and leaves the accounts, the cases and the reports as they were;
\* for a stored account that did neither, it removes the account and keeps
\* every case, those the account was assigned to with no assigned officer.
C27_OwnersExist ==
  /\ []((\A c \in cases : c.createdById \in DOMAIN users)
         /\ (\A x \in reports : x.generatedById \in DOMAIN users))
  /\ [][\A s \in SlotIds :
          (reqs[s].pc = "deleteUser:delete" /\ reqs'[s] # reqs[s]
             /\ reqs[s].id.num \in DOMAIN users)
          => IF Owns(reqs[s].id.num)
               THEN /\ reqs'[s].resp.status = 500
                    /\ users' = users
                    /\ cases' = cases
                    /\ reports' = reports
               ELSE /\ reqs[s].id.num \notin DOMAIN users'
                    /\ reports' = reports
                    /\ cases' = {IF c.officerId = reqs[s].id.num
                                   THEN [c EXCEPT !.officerId = 0]
                                   ELSE c : c \in cases}]_vars

\* The delete of an account that created a case has been refused, and the
\* account and its case are still stored.
C27_OwnerDeleteRefused ==
  \E s \in SlotIds :
    /\ reqs[s].route = "DELETE /api/users/:id"
    /\ reqs[s].pc = "done"
    /\ reqs[s].resp.status = 500
    /\ reqs[s].id.num \in DOMAIN users
    /\ \E c \in cases : c.createdById = reqs[s].id.num


\* C28: through createUser, updateUser and deleteUser requests, possibly
\* overlapping, some stored account always has role 'admin' and status
\* 'active'.
C28_AnActiveAdminRemains ==
  \E u \in DOMAIN users :
    users[u].role = "admin" /\ users[u].status = "active"


\* --------------------------------------------------------------- passwords
\* POST /api/auth/change-password {currentPassword, newPassword}, and
\* PATCH /api/users/:id {password}.
CurrentPasswords == {"", "Officer123!", "Admin123!"}
NewPasswords == {"abc", "Secret1"}

PasswordRequests ==
  {Rq("POST /api/auth/change-password", h, NoParam,
      [currentPassword |-> c, newPassword |-> n]) :
     h \in Sessions, c \in CurrentPasswords, n \in NewPasswords}
    \cup {Rq("PATCH /api/users/:id", h, Num(n), NewPasswordBody) :
            h \in Sessions, n \in 1..2}

NextPassword ==
  \E s \in SlotIds :
    \/ Accept(s, PasswordRequests)
    \/ ChangePassword_find(s)
    \/ ChangePassword_update(s)
    \/ ChangePassword_log(s)
    \/ UpdateUser_update(s)
    \/ Finish(s)

SpecPassword == Init /\ [][NextPassword]_vars

\* The request in slot s is a changePassword of account u that supplies
\* the password the store holds for u.
SuppliesCurrentPassword(s, u) ==
  /\ reqs[s].route = "POST /api/auth/change-password"
  /\ reqs[s].user.id = u
  /\ bcryptCompare(text(reqs[s].body, "currentPassword"), users[u].password)

\* C29: the stored password hash of an account changes only in a step of a
\* changePassword request of that account that supplies the account's
\* current password, or in a step of a request made by an admin; and a
\* changePassword that supplies another password is answered 401
\* INVALID_PASSWORD and changes no account.
C29_HashChangesNeedPasswordOrAdmin ==
  [][\A s \in SlotIds :
       reqs'[s] # reqs[s] =>
         /\ \A u \in DOMAIN users :
              (u \in DOMAIN users' /\ users'[u].password # users[u].password)
              => \/ SuppliesCurrentPassword(s, u)
                 \/ reqs[s].user.role = "admin"
         /\ (/\ reqs[s].pc = "changePassword"
             /\ text(reqs[s].body, "currentPassword") # ""
             /\ Len(text(reqs[s].body, "newPassword")) >= 6
             /\ reqs[s].user.id \in DOMAIN users
             /\ ~SuppliesCurrentPassword(s, reqs[s].user.id))
            => /\ reqs'[s].resp = Resp(401, "INVALID_PASSWORD")
               /\ users' = users]_vars


\* ------------------------------------------------------ failed log writes
\* Case creates and updates whose activity entry may fail to be written,
\* for any reason the store has or because the acting account is deleted
\* meanwhile.
LogFailRequests ==
  {Rq("POST /api/cases", h, NoParam, TheftBody) : h \in Sessions}
    \cup {Rq("PATCH /api/cases/:id", Bearer(generateToken(2)), Num(1),
              [status |-> "resolved"])}
    \cup {Rq("DELETE /api/users/:id", Bearer(generateToken(1)), Num(2),
              EmptyBody)}

NextLogFail ==
  \E s \in SlotIds :
    \/ Accept(s, LogFailRequests)
    \/ CreateCase_generateCaseId(s)
    \/ CreateCase_create(s)
    \/ CreateCase_log(s)
    \/ CreateCase_logFails(s)
    \/ UpdateCase_find(s)
    \/ UpdateCase_update(s)
    \/ UpdateCase_log(s)
    \/ UpdateCase_logFails(s)
    \/ DeleteUser_find(s)
    \/ DeleteUser_delete(s)
    \/ Finish(s)

SpecLogFail == Init /\ [][NextLogFail]_vars

\* C30: when the activity entry of a createCase or an updateCase is not
\* written, the request is still answered 201 (create) or 200 (update) and
\* the cases stay as the request left them.
C30_LogFailureDoesNotFailRequest ==
  [][\A s \in SlotIds :
       (/\ reqs[s].pc \in {"createCase:log", "updateCase:log"}
        /\ reqs'[s] # reqs[s]
        /\ activitylog' = activitylog)
       => /\ reqs'[s].pc = "done"
          /\ reqs'[s].resp.status =
               IF reqs[s].route = "POST /api/cases" THEN 201 ELSE 200
          /\ cases' = cases
          /\ \E c \in cases' : c.id = reqs[s].found]_vars

\* A createCase was answered 201 with its case stored and no activity
\* entry written.
C30_CreatedWithoutEntry ==
  \E s \in SlotIds :
    /\ reqs[s].route = "POST /api/cases"
    /\ reqs[s].pc = "done"
    /\ reqs[s].resp.status = 201
    /\ activitylog = <<>>
    /\ \E c \in cases : c.id = reqs[s].found

=============================================================================
